---- MODULE Spec2Model ----
(***************************************************************************)
(* Ordered multiset partitions and the minimaj crystal                     *)
(* (src/src/sage/combinat/multiset_partition_ordered.py).                  *)
(*                                                                         *)
(* A letter is a positive integer, a block is a set of letters, an ordered *)
(* multiset partition is a sequence of blocks.  Python lists and tuples    *)
(* are sequences (1-indexed here, 0-indexed in the source), a Sage Set is  *)
(* a set, a dictionary is a function.  A generator is modelled by the bag  *)
(* of what it yields (its order of production is not recorded).            *)
(***************************************************************************)
EXTENDS Integers, Sequences, FiniteSets, TLC

VARIABLES
    setOrder,   \* the iteration order of a Set on this build: letter -> slot
    family,     \* the parent (enumeration family) under consideration
    listed,     \* result of the last list(family), if any
    card,       \* result of the last family.cardinality(), if any
    omp,        \* the ordered multiset partition ``self``
    call,       \* the last method called on omp, with its arguments
    ret,        \* what that call returned or raised
    crystal,    \* the MinimajCrystal parent: n, ell, k
    elt,        \* a crystal element: the pair (word, breaks)
    cursor      \* the running iterator of family: its stage and whether it is exhausted

vars == <<setOrder, family, listed, card, omp, call, ret, crystal, elt, cursor>>

----------------------------------------------------------------------------
(* Bounds of the model *)

\* largest letter of the alphabets that are explored
MaxLetter == 3
\* largest order (number of letters with multiplicity) of a multiset or partition
MaxOrder == 3
\* largest order of a partition whose methods are called
MaxOmpOrder == 3
\* largest integer n of a fixed-size family
MaxSize == 6
\* largest letter and largest order of the two partitions of a binary method
MaxPairLetter == 2
MaxPairOrder == 2
\* most separators added after a block of a shorthand list
MaxExtra == 1
\* largest integer given as the value of a constraint
MaxKw == 2
\* passes of a loop of __iter__ that has no exit that are followed
MaxStage == 3
\* largest k of deconcatenate(k) and split(k)
MaxParts == 3

Letters == 1..MaxLetter

----------------------------------------------------------------------------
(* Results of calls *)

None == [kind |-> "none"]
Ok(v) == [kind |-> "ok", val |-> v]
Raise(e) == [kind |-> "raise", exc |-> e]

----------------------------------------------------------------------------
(* Python builtins on sequences and sets *)

RECURSIVE SumSeq(_)
SumSeq(s) == IF s = <<>> THEN 0 ELSE Head(s) + SumSeq(Tail(s))

RECURSIVE SumSet(_)
SumSet(S) == IF S = {} THEN 0 ELSE LET x == CHOOSE y \in S : TRUE IN x + SumSet(S \ {x})

RECURSIVE ProdSeq(_)
ProdSeq(s) == IF s = <<>> THEN 1 ELSE Head(s) * ProdSeq(Tail(s))

Min(S) == CHOOSE x \in S : \A y \in S : x <= y
Max(S) == CHOOSE x \in S : \A y \in S : y <= x

Range(s) == {s[i] : i \in DOMAIN s}

Reverse(s) == [i \in 1..Len(s) |-> s[Len(s) + 1 - i]]

\* s[a:b] of Python, a and b 0-based
Slice(s, a, b) == [i \in 1..(b - a) |-> s[a + i]]

\* sorted(S)
RECURSIVE sorted(_)
sorted(S) == IF S = {} THEN <<>> ELSE LET m == Min(S) IN <<m>> \o sorted(S \ {m})

\* list(S) for a Sage Set S: the elements in the iteration order of the
\* underlying hash set, which is the order of their slots, not of their values
RECURSIVE SetList(_)
SetList(S) ==
    IF S = {} THEN <<>>
    ELSE LET m == CHOOSE x \in S : \A y \in S : setOrder[x] <= setOrder[y]
         IN <<m>> \o SetList(S \ {m})

\* the iteration orders a build can have: any assignment of distinct slots
SetOrders == {f \in [Letters -> 1..MaxLetter] : \A x, y \in Letters : x # y => f[x] # f[y]}

\* map(Set, co)
MapSet(co) == [i \in 1..Len(co) |-> Range(co[i])]

\* the bag of the values img[x] yielded along the paths x of a generator
BagOf(img) ==
    [p \in {img[x] : x \in DOMAIN img} |-> Cardinality({x \in DOMAIN img : img[x] = p})]

RECURSIVE SumBag(_, _)
SumBag(b, D) == IF D = {} THEN 0 ELSE LET x == CHOOSE y \in D : TRUE IN b[x] + SumBag(b, D \ {x})

\* len(list(iterator))
BagSize(b) == SumBag(b, DOMAIN b)

\* bag union of the bags b1 and b2
BagPlus(b1, b2) ==
    [p \in (DOMAIN b1) \cup (DOMAIN b2) |->
        (IF p \in DOMAIN b1 THEN b1[p] ELSE 0) + (IF p \in DOMAIN b2 THEN b2[p] ELSE 0)]

EmptyBag == [p \in {} |-> 0]

----------------------------------------------------------------------------
(* Enumerators of Sage the module calls *)

\* cartesian_product(L): every tuple with its i-th entry taken from L[i]
RECURSIVE cartesian_product(_)
cartesian_product(L) ==
    IF L = <<>> THEN {<<>>}
    ELSE {<<x>> \o t : x \in Head(L), t \in cartesian_product(Tail(L))}

\* Compositions(n, max_part=m): the sequences of integers in 1..m with sum n
RECURSIVE CompositionsMax(_, _)
CompositionsMax(n, m) ==
    IF n = 0 THEN {<<>>}
    ELSE UNION {{<<a>> \o c : c \in CompositionsMax(n - a, m)} : a \in 1..Min({n, m})}

\* Compositions(n)
Compositions(n) == CompositionsMax(n, n)

\* Compositions(n, length=k, max_part=m)
CompositionsLen(n, k, m) == {c \in CompositionsMax(n, m) : Len(c) = k}

\* the weight (letter -> frequency) of the letters of a sequence
get_weight(lst) == [x \in Range(lst) |-> Cardinality({i \in DOMAIN lst : lst[i] = x})]

\* the weight w with one occurrence of the letter x removed
WeightLess(w, x) ==
    [y \in (IF w[x] = 1 THEN (DOMAIN w) \ {x} ELSE DOMAIN w) |-> IF y = x THEN w[y] - 1 ELSE w[y]]

\* Permutations_mset(X): the distinct rearrangements of the multiset of weight w
RECURSIVE Permutations_mset(_)
Permutations_mset(w) ==
    IF DOMAIN w = {} THEN {<<>>}
    ELSE UNION {{<<x>> \o p : p \in Permutations_mset(WeightLess(w, x))} : x \in DOMAIN w}

\* Subsets_sk(A, a): the subsets of A with a elements
Subsets_sk(A, a) == {B \in SUBSET A : Cardinality(B) = a}

\* IntegerListsLex(a, min_slope=1, min_part=1): the strictly increasing lists
\* of positive integers with sum a
StrictlyIncreasingLists(a) == {sorted(B) : B \in {B \in SUBSET (1..a) : SumSet(B) = a}}

\* IntegerListsLex(min_part=0, max_part=m, length=n): the words of length n over 0..m
Words(n, m) == [1..n -> 0..m]

\* IntegerListsLex(n, length=k): the lists of k nonnegative integers with sum n
RECURSIVE WeakCompositions(_, _)
WeakCompositions(n, k) ==
    IF k = 0 THEN (IF n = 0 THEN {<<>>} ELSE {})
    ELSE UNION {{<<a>> \o c : c \in WeakCompositions(n - a, k - 1)} : a \in 0..n}

binomial(n, k) == Cardinality(Subsets_sk(1..n, k))

RECURSIVE Pow(_, _)
Pow(b, e) == IF e = 0 THEN 1 ELSE b * Pow(b, e - 1)

----------------------------------------------------------------------------
(* Module-level helpers of multiset_partition_ordered.py *)

\* _concatenate(list_of_iters)
RECURSIVE concatenate(_)
concatenate(L) == IF L = <<>> THEN <<>> ELSE Head(L) \o concatenate(Tail(L))

partial_sum_short(lst) == [i \in 1..Len(lst) |-> SumSeq(SubSeq(lst, 1, i))]

\* _partial_sum(lst)
partial_sum(lst) == [i \in 1..(Len(lst) + 1) |-> SumSeq(SubSeq(lst, 1, i - 1))]

\* _descents(w): the 0-based positions j with w[j] > w[j+1], as a set
descents(w) == {j \in 0..(Len(w) - 2) : w[j + 1] > w[j + 2]}

\* _break_at_descents(alpha, weak): a new block starts at i (0-based) exactly
\* when alpha[i-1] > alpha[i], or alpha[i-1] = alpha[i] and weak
BreakStarts(alpha, weak) ==
    {0} \cup {i \in 1..(Len(alpha) - 1) :
                alpha[i] > alpha[i + 1] \/ (alpha[i] = alpha[i + 1] /\ weak)}

break_at_descents(alpha, weak) ==
    IF alpha = <<>> THEN <<>>
    ELSE LET st == sorted(BreakStarts(alpha, weak))
             en == [i \in 1..Len(st) |-> IF i = Len(st) THEN Len(alpha) ELSE st[i + 1]]
         IN [i \in 1..Len(st) |-> Slice(alpha, st[i], en[i])]

\* _is_initial_segment(lst) applied to sorted(set(w)): the labels used by w
\* are exactly 0..max(w)
is_initial_segment(w) == Range(w) = 0..Max(Range(w))

\* the tuple of sets a word of labels w makes of the list X
BlocksOfLabels(X, w, nlabels) == [l \in 1..nlabels |-> {X[pos] : pos \in {q \in DOMAIN X : w[q] = l - 1}}]

\* _refine_block(S, strong)
refine_block(S, strong) ==
    LET X == SetList(S)
        n == Len(X)
        WordSet == IF ~strong THEN Words(n, n - 1)
                   ELSE {w \in Words(n, n - 1) : \A i \in 1..(n - 1) : w[i] <= w[i + 1]}
    IN {BlocksOfLabels(X, w, Max(Range(w)) + 1) : w \in {v \in WordSet : is_initial_segment(v)}}

\* _split_block with one label too many: the letters given the label k are lost
split_block_wide(S, k) ==
    LET X == SetList(S)
        n == Len(X)
    IN {BlocksOfLabels(X, w, k) : w \in Words(n, k)}

\* _split_block(S, k)
split_block(S, k) ==
    LET X == SetList(S)
        n == Len(X)
    IN {BlocksOfLabels(X, w, k) : w \in Words(n, k - 1)}

\* _get_multiset(co), as the weight of the sorted tuple
get_multiset(co) == get_weight(concatenate([i \in 1..Len(co) |-> sorted(co[i])]))

----------------------------------------------------------------------------
(* OrderedMultisetPartition: refinement *)

\* OrderedMultisetPartition.finer(strong)
finer(self, strong) ==
    IF self = <<>> THEN {self}
    ELSE LET tmp == cartesian_product([i \in 1..Len(self) |-> refine_block(self[i], strong)])
         IN {concatenate(c) : c \in tmp}

----------------------------------------------------------------------------
(* The base iterators *)

\* _iterator_weight(weight): for each permutation alpha of the multiset, the
\* strong refinements of the partition that breaks alpha at its non-ascents.
\* A path of the generator is the pair (alpha, A).
iterator_weight_paths(weight) ==
    UNION {{<<alpha, A>> : A \in finer(MapSet(break_at_descents(alpha, TRUE)), TRUE)} :
                alpha \in Permutations_mset(weight)}

PathValue(path) == path[2]

iterator_weight(weight) ==
    IF DOMAIN weight = {} THEN [p \in {<<>>} |-> 1]
    ELSE BagOf([x \in iterator_weight_paths(weight) |-> PathValue(x)])

\* _iterator_size(size) with neither length nor alphabet: for each composition
\* alpha of size, each choice of strictly increasing lists p[i] of sum alpha[i]
iterator_size_paths(size) ==
    UNION {cartesian_product([i \in 1..Len(alpha) |-> StrictlyIncreasingLists(alpha[i])]) :
                alpha \in Compositions(size)}

\* a variant that enumerates the next size
iterator_size_next(size) == BagOf([x \in iterator_size_paths(size + 1) |-> MapSet(x)])

iterator_size(size) == BagOf([x \in iterator_size_paths(size) |-> MapSet(x)])

\* the lengths _iterator_order runs over: ``lengths`` if it is given and
\* nonempty, else max(1, d // n)..d, or (0,) when d = 0
OrderLengths(n, d, lengths) ==
    IF lengths # {} THEN lengths
    ELSE IF d # 0 THEN Max({1, d \div n})..d ELSE {0}

\* _iterator_order(A, d, lengths): for each k, the empty partition when k = 0
\* and d = 0, else each choice of alpha[i]-subsets of A over the compositions
\* alpha of d with k parts, each at most len(A)
iterator_order_paths(A, d, lengths) ==
    LET n == Cardinality(A)
    IN UNION {IF k = 0 /\ d = 0 THEN {<<>>}
              ELSE UNION {cartesian_product([i \in 1..Len(alpha) |-> Subsets_sk(A, alpha[i])]) :
                            alpha \in CompositionsLen(d, k, n)} :
                k \in OrderLengths(n, d, lengths)}

iterator_order(A, d, lengths) == BagOf([x \in iterator_order_paths(A, d, lengths) |-> x])

----------------------------------------------------------------------------
(* Methods of an ordered multiset partition *)

\* OrderedMultisetPartitions._has_valid_blocks on a list of sets: no block is
\* empty (a set has no repeated element)
has_valid_blocks(x) == \A i \in DOMAIN x : x[i] # {}

\* OrderedMultisetPartition.letters
letters(self) == UNION Range(self)

\* OrderedMultisetPartition.weight: the dictionary of _get_weight(self._multiset)
weight(self) == get_multiset(self)

\* OrderedMultisetPartition.order
order(self) == SumSeq([i \in 1..Len(self) |-> Cardinality(self[i])])

\* OrderedMultisetPartition.size
size(self) == SumSeq([i \in 1..Len(self) |-> SumSet(self[i])])

\* deconcatenate cutting only into nonempty pieces
deconcatenate_positive(self, k) ==
    {LET ps == partial_sum(c)
     IN [i \in 1..k |-> Slice(self, ps[i], ps[i + 1])] : c \in CompositionsLen(Len(self), k, Len(self))}

\* OrderedMultisetPartition.deconcatenate(k): one tuple of slices for each list
\* c of k nonnegative integers of sum len(self), cut at the partial sums of c
deconcatenate(self, k) ==
    {LET ps == partial_sum(c)
     IN [i \in 1..k |-> Slice(self, ps[i], ps[i + 1])] : c \in WeakCompositions(Len(self), k)}

IsNonempty(b) == b # {}

\* OrderedMultisetPartition.split(k): zip(*t) regroups the pieces by label,
\* and the empty pieces are dropped
split(self, k) ==
    IF self = <<>> THEN {[j \in 1..k |-> self]}
    ELSE LET tmp == cartesian_product([i \in 1..Len(self) |-> split_block(self[i], k)])
         IN {[j \in 1..k |-> SelectSeq([i \in 1..Len(self) |-> t[i][j]], IsNonempty)] : t \in tmp}

\* OrderedMultisetPartition.fatten(grouping): the i-th group of consecutive blocks
FattenGroup(self, grouping, i) ==
    Slice(self, SumSeq(SubSeq(grouping, 1, i - 1)), SumSeq(SubSeq(grouping, 1, i)))

\* ``valid`` of fatten with the comparison ``<=`` in place of ``<``
FattenValid_strict(self, grouping) ==
    \A i \in 1..Len(grouping) :
        LET result_i == FattenGroup(self, grouping, i)
        IN ~(Cardinality(UNION Range(result_i)) <= SumSeq([j \in 1..Len(result_i) |-> Cardinality(result_i[j])]))

\* ``valid`` of fatten: in every group the union has as many letters as the
\* blocks have together
FattenValid(self, grouping) ==
    \A i \in 1..Len(grouping) :
        LET result_i == FattenGroup(self, grouping, i)
        IN ~(Cardinality(UNION Range(result_i)) < SumSeq([j \in 1..Len(result_i) |-> Cardinality(result_i[j])]))

\* fatten returning the merged blocks whether or not they are valid
fatten_merged(self, grouping) ==
    IF SumSeq(grouping) # Len(self) THEN Raise("ValueError")
    ELSE Ok([i \in 1..Len(grouping) |-> UNION Range(FattenGroup(self, grouping, i))])

\* OrderedMultisetPartition.fatten. A valid result has duplicate-free blocks
\* and the multiset of self, so the family of self._multiset accepts it.
fatten(self, grouping) ==
    IF SumSeq(grouping) # Len(self) THEN Raise("ValueError")
    ELSE IF ~FattenValid(self, grouping) THEN Raise("ValueError")
    ELSE Ok([i \in 1..Len(grouping) |-> UNION Range(FattenGroup(self, grouping, i))])

\* OrderedMultisetPartition.fatter
fatter(self) ==
    {fatten(self, c).val : c \in {g \in Compositions(Len(self)) : fatten(self, g).kind = "ok"}}

\* the two ``while`` loops of is_finer: drop the common prefix, then the common
\* suffix; indexing an emptied list raises IndexError
RECURSIVE TrimPrefix(_, _)
TrimPrefix(co1, co2) ==
    IF co1 = <<>> \/ co2 = <<>> THEN Raise("IndexError")
    ELSE IF co1[1] = co2[1] THEN TrimPrefix(Tail(co1), Tail(co2))
    ELSE Ok(<<co1, co2>>)

RECURSIVE TrimSuffix(_, _)
TrimSuffix(co1, co2) ==
    IF co1 = <<>> \/ co2 = <<>> THEN Raise("IndexError")
    ELSE IF co1[Len(co1)] = co2[Len(co2)]
         THEN TrimSuffix(SubSeq(co1, 1, Len(co1) - 1), SubSeq(co2, 1, Len(co2) - 1))
    ELSE Ok(<<co1, co2>>)

\* OrderedMultisetPartition.is_finer(co)
is_finer(self, co) ==
    IF weight(self) # weight(co) THEN Ok(FALSE)
    ELSE LET t1 == TrimPrefix(self, co)
         IN IF t1.kind = "raise" THEN t1
            ELSE LET t2 == TrimSuffix(t1.val[1], t1.val[2])
                 IN IF t2.kind = "raise" THEN t2
                    ELSE Ok(t2.val[1] \in finer(t2.val[2], FALSE))

----------------------------------------------------------------------------
(* Minimaj ordering and the tableau encoding *)

\* OrderedMultisetPartition.shape_from_cardinality
shape_from_cardinality(self) == [i \in 1..Len(self) |-> Cardinality(self[i])]

\* OrderedMultisetPartition.minimaj_blocks: the last block is sorted; going
\* leftwards, each block lists its letters above the first letter of the block
\* to its right (increasing), then the others (increasing)
RECURSIVE minimaj_blocks(_)
minimaj_blocks_strict(self) ==
    IF Len(self) = 0 THEN <<>>
    ELSE IF Len(self) = 1 THEN <<sorted(self[1])>>
    ELSE LET C == minimaj_blocks(Tail(self))
             lower == {j \in self[1] : j < C[1][1]}
             upper == self[1] \ lower
         IN <<sorted(upper) \o sorted(lower)>> \o C

minimaj_blocks(self) ==
    IF Len(self) = 0 THEN <<>>
    ELSE IF Len(self) = 1 THEN <<sorted(self[1])>>
    ELSE LET C == minimaj_blocks(Tail(self))
             lower == {j \in self[1] : j <= C[1][1]}
             upper == self[1] \ lower
         IN <<sorted(upper) \o sorted(lower)>> \o C

\* OrderedMultisetPartition.minimaj_word
minimaj_word(self) == concatenate(minimaj_blocks(self))

minimaj_zero_based(self) == SumSet(descents(minimaj_word(self)))

\* OrderedMultisetPartition.minimaj: _descents gives 0-based positions
minimaj(self) ==
    LET D == descents(minimaj_word(self))
    IN SumSet(D) + Cardinality(D)

\* the list p of to_tableau for the run D[i]+1..D[i+1] (0-based indices into w)
TableauPiece(w, beginning, lo, hi) ==
    LET js == sorted({j \in lo..hi : j \notin beginning})
    IN [q \in 1..Len(js) |-> w[js[q] + 1]]

\* OrderedMultisetPartition.to_tableau
to_tableau(self) ==
    IF self = <<>> THEN <<>>
    ELSE LET bb == minimaj_blocks(self)
             b == [i \in 1..Len(bb) |-> bb[i][1]]
             beginning == Range(partial_sum(shape_from_cardinality(self)))
             w == concatenate(bb)
             D == <<0>> \o sorted(descents(w)) \o <<Len(w)>>
             m == Len(D) - 1
         IN [r \in 1..(m + 1) |->
                IF r = m + 1 THEN b
                ELSE Reverse(TableauPiece(w, beginning, D[m + 1 - r] + 1, D[m + 2 - r]))]

\* the tuple appended to mu[j] in round f of _to_minimaj_blocks (j, f 0-based;
\* Tr is the list of reversed rows above the last, bottom row first)
MinimajAppend(last, Tr, breaks, f, j) ==
    LET Keep(i) == /\ (last[j + 1] < i \/ j = breaks[f + 1])
                   /\ (j = breaks[f + 2] \/ i <= last[j + 2])
    IN SelectSeq(Tr[f + 1], Keep)

\* _to_minimaj_blocks(T); T[-1] of an empty list raises IndexError
to_minimaj_blocks(T) ==
    IF T = <<>> THEN Raise("IndexError")
    ELSE LET last == T[Len(T)]
             breaks == <<0>> \o sorted(descents(last)) \o <<Len(last) - 1>>
             Tr == [f \in 1..(Len(T) - 1) |-> Reverse(T[Len(T) - f])]
             rounds(j) == sorted({f \in 0..(Len(breaks) - 2) : breaks[f + 1] <= j /\ j <= breaks[f + 2]})
         IN Ok([q \in 1..Len(last) |->
                  <<last[q]>> \o concatenate([r \in 1..Len(rounds(q - 1)) |->
                        MinimajAppend(last, Tr, breaks, rounds(q - 1)[r], q - 1)])])

----------------------------------------------------------------------------
(* The families (parents) without attached constraints *)

NoFamily == [cls |-> "none", weight |-> <<>>, n |-> 0, alphabet |-> {}, order |-> 0]

\* OrderedMultisetPartitions_X(X): weight is the dictionary letter -> frequency
OrderedMultisetPartitions_X(w) == [NoFamily EXCEPT !.cls = "X", !.weight = w]

\* OrderedMultisetPartitions_n(n)
OrderedMultisetPartitions_n(n) == [NoFamily EXCEPT !.cls = "n", !.n = n]

\* OrderedMultisetPartitions_A(A, d)
OrderedMultisetPartitions_A(A, d) == [NoFamily EXCEPT !.cls = "A", !.alphabet = A, !.order = d]

\* __iter__ of the three classes
Iterate(F) ==
    CASE F.cls = "X" -> iterator_weight(F.weight)
      [] F.cls = "n" -> iterator_size(F.n)
      [] F.cls = "A" -> iterator_order(F.alphabet, F.order, {})

\* sum of F over the finite set S, F given as a function on S
SumOver(S, F) == SumBag(F, S)

\* OrderedMultisetPartitions_X.cardinality: 0 for the empty multiset, else the
\* sum over the permutations alpha of prod(2**(len(k)-1) for k in fattest)
cardinality_X(w) ==
    IF DOMAIN w = {} THEN 0
    ELSE LET P == Permutations_mset(w)
             term == [alpha \in P |->
                        LET fattest == break_at_descents(alpha, TRUE)
                        IN ProdSeq([i \in 1..Len(fattest) |-> Pow(2, Len(fattest[i]) - 1)])]
         IN SumOver(P, term)

\* the coefficient of t^d in prod(1 + t^k for k in 1..m)
RECURSIVE PolyCoeff(_, _)
PolyCoeff(m, d) ==
    IF m = 0 THEN (IF d = 0 THEN 1 ELSE 0)
    ELSE PolyCoeff(m - 1, d) + (IF d >= m THEN PolyCoeff(m - 1, d - m) ELSE 0)

\* prod([1+t**k for k in range(1,n+1)]).coefficients(): the pairs
\* [coefficient, degree] of the nonzero terms, by increasing degree
partspoly(n) ==
    LET degs == sorted({d \in 0..((n * (n + 1)) \div 2) : PolyCoeff(n, d) # 0})
    IN [i \in 1..Len(degs) |-> <<PolyCoeff(n, degs[i]), degs[i]>>]

\* the table of OrderedMultisetPartitions_n.cardinality for n <= 5
orders == [i \in 0..5 |-> CASE i = 0 -> 1 [] i = 1 -> 1 [] i = 2 -> 2
                              [] i = 3 -> 5 [] i = 4 -> 11 [] i = 5 -> 25]

\* cardinality_n with the polynomial built over range(1, n): the part n is lost
cardinality_n_short(n) ==
    IF n <= 5 THEN orders[n]
    ELSE LET pp == partspoly(n - 1)
             C == Compositions(n)
             term == [alpha \in C |-> ProdSeq([i \in 1..Len(alpha) |-> pp[alpha[i] + 1][1]])]
         IN SumOver(C, term)

\* OrderedMultisetPartitions_n.cardinality
cardinality_n(n) ==
    IF n <= 5 THEN orders[n]
    ELSE LET pp == partspoly(n)
             C == Compositions(n)
             term == [alpha \in C |-> ProdSeq([i \in 1..Len(alpha) |-> pp[alpha[i] + 1][1]])]
         IN SumOver(C, term)

\* OrderedMultisetPartitions_A.cardinality
cardinality_A(A, d) ==
    IF d = 0 THEN 0
    ELSE LET n == Cardinality(A)
             C == UNION {CompositionsLen(d, k, n) : k \in (d \div n)..d}
             term == [alpha \in C |-> ProdSeq([i \in 1..Len(alpha) |-> binomial(n, alpha[i])])]
         IN SumOver(C, term)

cardinality(F) ==
    CASE F.cls = "X" -> cardinality_X(F.weight)
      [] F.cls = "n" -> cardinality_n(F.n)
      [] F.cls = "A" -> cardinality_A(F.alphabet, F.order)

----------------------------------------------------------------------------
(* Families with attached constraints *)

\* sage.rings.infinity.infinity: larger than every length and order
infinity == 1000000

\* dictionaries: d.get(key, default), d.pop(key), d[key] = v
Get(d, key, default) == IF key \in DOMAIN d THEN d[key] ELSE default
Pop(d, keys) == [x \in (DOMAIN d) \ keys |-> d[x]]
Put(d, key, v) == [x \in (DOMAIN d) \cup {key} |-> IF x = key THEN v ELSE d[x]]

\* ``if val`` on the value of a constraint
Truthy(key, val) ==
    CASE key = "alphabet" -> val # {}
      [] key = "weight" -> DOMAIN val # {}
      [] OTHER -> val # 0

\* OrderedMultisetPartitions.__init__: the standardised ``constraints``
NormLength_unchecked(c0) ==
    LET c1 == IF "weight" \in DOMAIN c0
              THEN Pop(c0, {"alphabet", "min_order", "order", "max_order", "size"}) ELSE c0
        c2 == IF "length" \in DOMAIN c1 THEN Pop(c1, {"min_length", "max_length"}) ELSE c1
        min_k == Get(c2, "min_length", 0)
        max_k == Get(c2, "max_length", infinity)
    IN IF min_k = max_k
       THEN Ok(Put(Pop(c2, {"min_length", "max_length"}), "length",
                   Get(c2, "min_length", c2["max_length"])))
       ELSE Ok(c2)

NormLength(c0) ==
    LET c1 == IF "weight" \in DOMAIN c0
              THEN Pop(c0, {"alphabet", "min_order", "order", "max_order", "size"}) ELSE c0
        c2 == IF "length" \in DOMAIN c1 THEN Pop(c1, {"min_length", "max_length"}) ELSE c1
        min_k == Get(c2, "min_length", 0)
        max_k == Get(c2, "max_length", infinity)
    IN IF ~(min_k <= max_k) THEN Raise("AssertionError")
       ELSE IF min_k = max_k
            THEN Ok(Put(Pop(c2, {"min_length", "max_length"}), "length",
                        Get(c2, "min_length", c2["max_length"])))
       ELSE Ok(c2)

NormOrder(c2) ==
    LET c3 == IF "order" \in DOMAIN c2 THEN Pop(c2, {"min_order", "max_order"}) ELSE c2
        min_ord == Get(c3, "min_order", 0)
        max_ord == Get(c3, "max_order", infinity)
    IN IF ~(min_ord <= max_ord) THEN Raise("AssertionError")
       ELSE IF min_ord = max_ord
            THEN Ok(Put(Pop(c3, {"min_order", "max_order"}), "order",
                        Get(c3, "min_order", c3["max_order"])))
       ELSE Ok(c3)

\* the keys kept in self.constraints: those with a nonempty value, and size,
\* order and length whatever their value
init_constraints(c0) ==
    LET a == NormLength(c0)
    IN IF a.kind = "raise" THEN a
       ELSE LET b == NormOrder(a.val)
            IN IF b.kind = "raise" THEN b
               ELSE Ok(Pop(b.val, {key \in DOMAIN b.val :
                                     ~Truthy(key, b.val[key]) /\ key \notin {"size", "order", "length"}}))

\* OrderedMultisetPartitions_A_constraints(A, d, **constraints): full_constraints
\* is self.constraints with the alphabet and the order of the class
OrderedMultisetPartitions_A_constraints(A, d, constraints) ==
    LET c == init_constraints(constraints).val
    IN [cls |-> "A_constraints", alphabet |-> A, order |-> d, constraints |-> c,
        full_constraints |-> Put(Put(c, "alphabet", A), "order", d)]

\* pass_test of _satisfies_constraints; a key it does not know falls through
\* every ``if`` and gives None, which ``all`` reads as false
pass_test(co, key, tst) ==
    CASE key = "size" -> size(co) = tst
      [] key = "length" -> Len(co) = tst
      [] key = "min_length" -> Len(co) >= tst
      [] key = "max_length" -> Len(co) <= tst
      [] key = "weight" -> weight(co) = tst
      [] key = "alphabet" -> letters(co) \subseteq tst
      [] key = "order" -> order(co) = tst
      [] key = "min_order" -> order(co) >= tst
      [] key = "max_order" -> order(co) <= tst
      [] OTHER -> FALSE

\* OrderedMultisetPartitions._satisfies_constraints: only the constraints whose
\* value is true (``if val``) are tested
satisfies_constraints(full_constraints, x) ==
    \A key \in DOMAIN full_constraints :
        Truthy(key, full_constraints[key]) => pass_test(x, key, full_constraints[key])

\* the bag of chain(*its)
RECURSIVE Chain(_)
Chain(its) == IF its = <<>> THEN EmptyBag ELSE BagPlus(Head(its), Chain(Tail(its)))

\* _base_iterator(constraints), the branch of a pinned alphabet with neither
\* weight nor size: the bounds on length and order, then one _iterator_order
\* per order; None when a bound is infinite
base_iterator_alphabet(c) ==
    LET A == c["alphabet"]
        min_k0 == Get(c, "min_length", 0)
        min_ord0 == Get(c, "min_order", 0)
        max_ord0 == Get(c, "max_order", infinity)
        max_k0 == Min({Get(c, "max_length", infinity), max_ord0})
        hasLen == "length" \in DOMAIN c
        min_k1 == IF hasLen THEN c["length"] ELSE min_k0
        max_k1 == IF hasLen THEN c["length"] ELSE max_k0
        min_ord1 == IF hasLen THEN Max({min_ord0, min_k1}) ELSE min_ord0
        max_ord1 == IF hasLen THEN Min({max_ord0, Cardinality(A) * max_k1}) ELSE max_ord0
        hasOrd == "order" \in DOMAIN c
        min_ord == IF hasOrd THEN c["order"] ELSE min_ord1
        max_ord == IF hasOrd THEN c["order"] ELSE max_ord1
        max_k == IF hasOrd THEN Min({max_k1, max_ord}) ELSE max_k1
        min_k == IF hasOrd /\ min_ord # 0
                 THEN Max({1, min_k1, min_ord \div Cardinality(A)}) ELSE min_k1
    IN IF max_k = infinity \/ max_ord = infinity THEN None
       ELSE Ok(Chain([o \in 1..(max_ord - min_ord + 1) |->
                        iterator_order(A, min_ord + o - 1, min_k..max_k)]))

\* restriction of a bag to the values of the set S
BagFilter(b, S) == [x \in (DOMAIN b) \cap S |-> b[x]]

\* OrderedMultisetPartitions.__iter__ when _base_iterator gives an iterator:
\* what it yields, filtered by _satisfies_constraints
iter_constraints(F) ==
    LET it == base_iterator_alphabet(F.full_constraints).val
    IN BagFilter(it, {co \in DOMAIN it : satisfies_constraints(F.full_constraints, co)})

----------------------------------------------------------------------------
(* Membership in a family, and the element constructor *)

\* OrderedMultisetPartitions._has_valid_blocks on a list of lists: no block
\* is empty and no block repeats a letter
has_valid_blocks_list(x) ==
    \A i \in DOMAIN x : x[i] # <<>> /\ Cardinality(Range(x[i])) = Len(x[i])

\* self._Xtup of a fixed-multiset family, as a weight
Xtup(F) == F.weight

\* OrderedMultisetPartitions_X._has_valid_blocks
has_valid_blocks_X(F, x) ==
    has_valid_blocks_list(x) /\ get_weight(concatenate(x)) = Xtup(F)

\* the loop of _from_zero_list: a zero closes the block read so far, if any
RECURSIVE ZeroSplit(_, _)
ZeroSplit(lst, block) ==
    IF lst = <<>> THEN <<>>
    ELSE IF Head(lst) = 0
         THEN (IF block # <<>> THEN <<block>> ELSE <<>>) \o ZeroSplit(Tail(lst), <<>>)
         ELSE ZeroSplit(Tail(lst), Append(block, Head(lst)))

\* OrderedMultisetPartitions._from_zero_list, of the generic family
from_zero_list(lst_with_zeros) ==
    IF lst_with_zeros = <<>> THEN Raise("IndexError")
    ELSE LET from_zero_lst == IF lst_with_zeros[Len(lst_with_zeros)] # 0
                              THEN lst_with_zeros \o <<0>> ELSE lst_with_zeros
             co == ZeroSplit(from_zero_lst, <<>>)
         IN IF has_valid_blocks_list(co) THEN Ok(MapSet(co)) ELSE Raise("ValueError")

\* from_list reading every entry, zeros included, as a singleton block
from_list_flat(lst) == Ok([i \in DOMAIN lst |-> {lst[i]}])

\* OrderedMultisetPartitions.from_list, of the generic family
from_list(lst) ==
    IF \E i \in DOMAIN lst : lst[i] < 0 THEN Raise("ValueError")
    ELSE IF 0 \in Range(lst) THEN from_zero_list(lst)
    ELSE Ok([i \in DOMAIN lst |-> {lst[i]}])

----------------------------------------------------------------------------
(* Shuffle products *)

\* one step of a shuffle: the block taken and where it came from
Step(src, blk) == [src |-> src, blk |-> blk]

\* ShuffleProduct(a, b): every way to interleave the items of a and of b, each
\* list keeping its order; one term per choice of the positions of a
RECURSIVE ShuffleProduct(_, _)
ShuffleProduct(a, b) ==
    IF a = <<>> THEN {[i \in DOMAIN b |-> Step("b", b[i])]}
    ELSE IF b = <<>> THEN {[i \in DOMAIN a |-> Step("a", a[i])]}
    ELSE {<<Step("a", a[1])>> \o t : t \in ShuffleProduct(Tail(a), b)}
         \cup {<<Step("b", b[1])>> \o t : t \in ShuffleProduct(a, Tail(b))}

\* ShuffleProduct_overlapping(a, b): the shuffles in which, besides, an item
\* of a may be added (+) to the item of b that would follow it
RECURSIVE ShuffleProduct_overlapping(_, _)
ShuffleProduct_overlapping(a, b) ==
    IF a = <<>> THEN {[i \in DOMAIN b |-> Step("b", b[i])]}
    ELSE IF b = <<>> THEN {[i \in DOMAIN a |-> Step("a", a[i])]}
    ELSE {<<Step("a", a[1])>> \o t : t \in ShuffleProduct_overlapping(Tail(a), b)}
         \cup {<<Step("b", b[1])>> \o t : t \in ShuffleProduct_overlapping(a, Tail(b))}
         \cup {<<Step("ab", a[1] \o b[1])>> \o t : t \in ShuffleProduct_overlapping(Tail(a), Tail(b))}

\* the list of blocks of a term
TermBlocks(t) == [i \in DOMAIN t |-> t[i].blk]

OverlapTerms_unfiltered(self, other) ==
    ShuffleProduct_overlapping([i \in DOMAIN self |-> SetList(self[i])],
                               [i \in DOMAIN other |-> SetList(other[i])])

\* the terms of shuffle_product with overlap that pass the test
\* len(_concatenate(map(Set, term))) == len(P._Xtup)
OverlapTerms(self, other) ==
    LET A == [i \in DOMAIN self |-> SetList(self[i])]
        B == [i \in DOMAIN other |-> SetList(other[i])]
    IN {t \in ShuffleProduct_overlapping(A, B) :
            SumSeq([i \in DOMAIN t |-> Cardinality(Range(t[i].blk))]) = order(self) + order(other)}

\* the terms of shuffle_product without overlap
PlainTerms(self, other) ==
    ShuffleProduct([i \in DOMAIN self |-> SetList(self[i])],
                   [i \in DOMAIN other |-> SetList(other[i])])

\* shuffle_product with the two branches exchanged
shuffle_product_swapped(self, other, overlap) ==
    LET P == OrderedMultisetPartitions_X(get_weight(concatenate(
                 [i \in 1..(Len(self) + Len(other)) |->
                     IF i <= Len(self) THEN sorted(self[i]) ELSE sorted(other[i - Len(self)])])))
        terms == IF overlap THEN PlainTerms(self, other) ELSE OverlapTerms(self, other)
    IN IF \E t \in terms : ~has_valid_blocks_X(P, TermBlocks(t)) THEN Raise("AssertionError")
       ELSE Ok(BagOf([t \in terms |-> MapSet(TermBlocks(t))]))

\* OrderedMultisetPartition.shuffle_product(other, overlap): the bag of the
\* terms P(term), P the family of the multiset sum
shuffle_product(self, other, overlap) ==
    LET P == OrderedMultisetPartitions_X(get_weight(concatenate(
                 [i \in 1..(Len(self) + Len(other)) |->
                     IF i <= Len(self) THEN sorted(self[i]) ELSE sorted(other[i - Len(self)])])))
        terms == IF ~overlap THEN PlainTerms(self, other) ELSE OverlapTerms(self, other)
    IN IF \E t \in terms : ~has_valid_blocks_X(P, TermBlocks(t)) THEN Raise("AssertionError")
       ELSE Ok(BagOf([t \in terms |-> MapSet(TermBlocks(t))]))

----------------------------------------------------------------------------
(* The soll-ordering *)

\* self._n: the sum of the letters (every letter of the model is a positive
\* integer, so it is never None)
n_of(self) == size(self)

\* u > v for two words, lexicographically
RECURSIVE WordGt(_, _)
WordGt(u, v) ==
    IF u = <<>> THEN FALSE
    ELSE IF v = <<>> THEN TRUE
    ELSE IF Head(u) # Head(v) THEN Head(u) > Head(v)
    ELSE WordGt(Tail(u), Tail(v))

\* w1 > w2 for two lists of words, lexicographically
RECURSIVE ListGt(_, _)
ListGt(w1, w2) ==
    IF w1 = <<>> THEN FALSE
    ELSE IF w2 = <<>> THEN TRUE
    ELSE IF Head(w1) # Head(w2) THEN WordGt(Head(w1), Head(w2))
    ELSE ListGt(Tail(w1), Tail(w2))

\* OrderedMultisetPartition.soll_gt. When both _n are nonzero the lists of
\* words are stored in co1 and co2, and ``return w1 > w2`` reads two names
\* that were never assigned. The other branch is reached, with letters that
\* are positive integers, only by two empty partitions.
soll_gt(self, other) ==
    IF size(self) > size(other) THEN Ok(TRUE)
    ELSE IF size(self) < size(other) THEN Ok(FALSE)
    ELSE IF order(self) > order(other) THEN Ok(TRUE)
    ELSE IF order(self) < order(other) THEN Ok(FALSE)
    ELSE IF Len(self) > Len(other) THEN Ok(TRUE)
    ELSE IF Len(self) < Len(other) THEN Ok(FALSE)
    ELSE IF n_of(self) # 0 /\ n_of(other) # 0 THEN Raise("UnboundLocalError")
    ELSE Ok(ListGt([i \in DOMAIN self |-> sorted(self[i])],
                   [i \in DOMAIN other |-> sorted(other[i])]))

----------------------------------------------------------------------------
(* Construction, membership and iteration of any family *)

\* the positional arguments of OrderedMultisetPartitions(*args, **constraints):
\* none, a multiset X, a size n, or an alphabet A and an order d
NoArgs == [shape |-> "none", X |-> <<>>, n |-> 0, A |-> {}, d |-> 0]

is_finite_alphabet(constraints) ==
    \/ "weight" \in DOMAIN constraints
    \/ "size" \in DOMAIN constraints
    \/ "alphabet" \in DOMAIN constraints

\* _is_finite(constraints)
is_finite(constraints) ==
    \/ "weight" \in DOMAIN constraints
    \/ "size" \in DOMAIN constraints
    \/ /\ "alphabet" \in DOMAIN constraints
       /\ (DOMAIN constraints) \cap {"length", "max_length", "order", "max_order"} # {}

\* OrderedMultisetPartitions.__init__(is_finite, **constraints) as the class
\* cls calls it: the standardised constraints, the constraints kept, the
\* full constraints with the attributes of the class, and the category
Parent(cls, args, constraints, finite) ==
    LET c0 == IF cls = "n_constraints" THEN Put(constraints, "size", args.n) ELSE constraints
        a == NormLength(c0)
        b == IF a.kind = "raise" THEN a ELSE NormOrder(a.val)
        c == init_constraints(c0)
        full == CASE cls = "X_constraints" -> Put(c.val, "weight", args.X)
                  [] cls = "n_constraints" -> Put(c.val, "size", args.n)
                  [] cls = "A_constraints" -> Put(Put(c.val, "alphabet", args.A), "order", args.d)
                  [] OTHER -> c.val
    IN IF c.kind = "raise" THEN c
       ELSE Ok([cls |-> cls, weight |-> args.X, n |-> args.n, alphabet |-> args.A,
                order |-> args.d, constraints |-> c.val, full_constraints |-> full,
                finite |-> (finite \/ is_finite(b.val))])

\* OrderedMultisetPartitions.__classcall_private__: the parent for the input
classcall(args, constraints) ==
    IF "weight" \in DOMAIN constraints
       /\ \E x \in DOMAIN constraints["weight"] : constraints["weight"][x] <= 0
    THEN Raise("ValueError")
    ELSE CASE args.shape = "A" ->
                IF args.A # {} /\ args.d >= 0
                THEN LET c == Pop(constraints, {"alphabet", "order"})
                     IN IF DOMAIN c = {} THEN Ok(OrderedMultisetPartitions_A(args.A, args.d))
                        ELSE Parent("A_constraints", args, c, TRUE)
                ELSE IF args.A = {} /\ args.d = 0
                     THEN Parent("A_constraints", args, constraints, TRUE)
                ELSE Raise("ValueError")
           [] args.shape = "X" ->
                LET c == Pop(constraints, {"size", "weight", "alphabet", "order"})
                IN IF DOMAIN c = {} THEN Ok(OrderedMultisetPartitions_X(args.X))
                   ELSE Parent("X_constraints", args, c, TRUE)
           [] args.shape = "n" ->
                LET c == Pop(constraints, {"size"})
                IN IF DOMAIN c = {} THEN Ok(OrderedMultisetPartitions_n(args.n))
                   ELSE Parent("n_constraints", args, c, TRUE)
           [] OTHER -> Parent("all_constraints", args, constraints, FALSE)

\* the category chosen by __init__: FiniteEnumeratedSets or not; the classes
\* without constraints pass is_finite = True
Finite(F) == IF F.cls \in {"X", "n", "A"} THEN TRUE ELSE F.finite

\* x in F, x a list of lists: __contains__ with the _has_valid_blocks of the
\* class of F; the class of all constraints inherits the one of the base class
contains(F, x) ==
    LET valid_X == has_valid_blocks_X(F, x)
        valid_n == /\ has_valid_blocks_list(x)
                   /\ \A i \in DOMAIN x : \A j \in DOMAIN x[i] : x[i][j] > 0
                   /\ SumSeq([i \in DOMAIN x |-> SumSeq(x[i])]) = F.n
        valid_A == /\ has_valid_blocks_list(x)
                   /\ SumSeq([i \in DOMAIN x |-> Len(x[i])]) = F.order
                   /\ Range(concatenate(x)) \subseteq F.alphabet
    IN CASE F.cls = "X" -> valid_X
         [] F.cls = "n" -> valid_n
         [] F.cls = "A" -> valid_A
         [] F.cls = "X_constraints" -> valid_X /\ satisfies_constraints(F.full_constraints, MapSet(x))
         [] F.cls = "n_constraints" -> valid_n /\ satisfies_constraints(F.full_constraints, MapSet(x))
         [] F.cls = "A_constraints" -> valid_A /\ satisfies_constraints(F.full_constraints, MapSet(x))
         [] OTHER -> has_valid_blocks_list(x)

\* _iterator_size(n, length, alphabet); the length -1 stands for None, and
\* an empty alphabet is read as no alphabet (``if alphabet``)
iterator_size_in(n, length, alphabet) ==
    LET comps == IF length = -1 THEN Compositions(n)
                 ELSE {alpha \in Compositions(n) : Len(alpha) = length}
        lists == [a \in 1..n |->
                    IF alphabet # {}
                    THEN {q \in StrictlyIncreasingLists(a) : Range(q) \subseteq alphabet}
                    ELSE StrictlyIncreasingLists(a)]
        paths == UNION {cartesian_product([i \in 1..Len(alpha) |-> lists[alpha[i]]]) : alpha \in comps}
    IN BagOf([x \in paths |-> MapSet(x)])

\* _base_iterator(constraints): an iterator, or None
base_iterator(constraints) ==
    IF "weight" \in DOMAIN constraints THEN Ok(iterator_weight(constraints["weight"]))
    ELSE IF "size" \in DOMAIN constraints
         THEN Ok(iterator_size_in(constraints["size"], Get(constraints, "length", -1),
                                  Get(constraints, "alphabet", {})))
    ELSE IF "alphabet" \in DOMAIN constraints THEN base_iterator_alphabet(constraints)
    ELSE None

\* the loop of __iter__: the classes without constraints have their own
\* iterator; else the filtered _base_iterator ("base"); else the loop over the
\* orders ell <= max_ell ("alphabet"); else ``while True`` over the sizes
IterLoop(F) ==
    IF F.cls \in {"X", "n", "A"} THEN [kind |-> "own", max |-> 0]
    ELSE IF base_iterator(F.full_constraints).kind = "ok" THEN [kind |-> "base", max |-> 0]
    ELSE IF "alphabet" \in DOMAIN F.constraints
         THEN LET c == F.constraints
                  max0 == Get(c, "length", Get(c, "max_length", infinity))
                  max1 == IF max0 = infinity THEN infinity ELSE max0 * Cardinality(c["alphabet"])
              IN [kind |-> "alphabet", max |-> Get(c, "order", Get(c, "max_order", max1))]
    ELSE [kind |-> "size", max |-> infinity]

\* what __iter__ yields in one pass of its loop
IterStage(F, stage) ==
    LET kind == IterLoop(F).kind
        it == CASE kind = "base" -> base_iterator(F.full_constraints).val
                [] kind = "alphabet" -> iterator_order(F.constraints["alphabet"], stage, {})
                [] OTHER -> iterator_size(stage)
    IN IF kind = "own" THEN Iterate(F)
       ELSE BagFilter(it, {co \in DOMAIN it : satisfies_constraints(F.full_constraints, co)})

----------------------------------------------------------------------------
(* Enumeration: a family is built, then listed and counted *)

\* the multisets over Letters with at most MaxOrder elements, as weights
Multisets ==
    UNION {{w \in [D -> 1..MaxOrder] : SumBag(w, D) <= MaxOrder} : D \in SUBSET Letters}

Families ==
    {OrderedMultisetPartitions_X(w) : w \in Multisets}
    \cup {OrderedMultisetPartitions_n(n) : n \in 0..MaxSize}
    \cup {OrderedMultisetPartitions_A(A, d) : A \in (SUBSET Letters) \ {{}}, d \in 0..MaxOrder}

NoCall == [name |-> "none", arg |-> 0]
NoCrystal == [n |-> 0, ell |-> 0, k |-> 0]
NoCursor == [stage |-> 0, parity |-> 0, done |-> FALSE, kind |-> "none", max |-> 0]
NoElt == [word |-> <<>>, breaks |-> <<>>]

InitEnum ==
    /\ setOrder \in SetOrders
    /\ cursor = NoCursor
    /\ family \in Families
    /\ listed = None
    /\ card = None
    /\ omp = <<>>
    /\ call = NoCall
    /\ ret = None
    /\ crystal = NoCrystal
    /\ elt = NoElt

\* list(family)
List ==
    /\ family.cls # "none"
    /\ listed = None
    /\ listed' = Ok(Iterate(family))
    /\ UNCHANGED <<cursor, setOrder, family, card, omp, call, ret, crystal, elt>>

\* family.cardinality()
Cardinality_ ==
    /\ family.cls # "none"
    /\ card = None
    /\ card' = Ok(cardinality(family))
    /\ UNCHANGED <<cursor, setOrder, family, listed, omp, call, ret, crystal, elt>>

NextEnum == List \/ Cardinality_

SpecEnum == InitEnum /\ [][NextEnum]_vars

----------------------------------------------------------------------------
(* Methods: a partition is built, then its methods are called *)

\* the ordered multiset partitions over Letters of order d
RECURSIVE OmpsOfOrder(_)
OmpsOfOrder(d) ==
    IF d = 0 THEN {<<>>}
    ELSE UNION {{<<B>> \o r : r \in OmpsOfOrder(d - Cardinality(B))} :
                B \in {C \in (SUBSET Letters) \ {{}} : Cardinality(C) <= d}}

AllOmps == UNION {OmpsOfOrder(d) : d \in 0..MaxOmpOrder}

Call(name, arg) == [name |-> name, arg |-> arg]

\* every ordered multiset partition of the multiset of weight w: each first
\* block is a nonempty set of letters still available
RECURSIVE AllOfWeight(_)
AllOfWeight(w) ==
    IF DOMAIN w = {} THEN {<<>>}
    ELSE UNION {{<<B>> \o r :
                    r \in AllOfWeight([y \in {z \in DOMAIN w : z \notin B \/ w[z] > 1} |->
                                            IF y \in B THEN w[y] - 1 ELSE w[y]])} :
                B \in (SUBSET (DOMAIN w)) \ {{}}}

\* the arguments is_finer is called with: the partitions of the multiset of omp
\* and, with another multiset, omp without its first block
Others == AllOfWeight(weight(omp)) \cup {SubSeq(omp, 2, Len(omp))}

InitOps ==
    /\ setOrder \in SetOrders
    /\ cursor = NoCursor
    /\ family = NoFamily
    /\ listed = None
    /\ card = None
    /\ omp \in AllOmps
    /\ call = NoCall
    /\ ret = None
    /\ crystal = NoCrystal
    /\ elt = NoElt

\* the methods are pure: each is called on the partition as built
Fresh == call.name = "none"

Returns(name, arg, result) ==
    /\ call' = Call(name, arg)
    /\ ret' = result
    /\ UNCHANGED <<cursor, setOrder, family, listed, card, omp, crystal, elt>>

\* omp.deconcatenate(k)
Deconcatenate == Fresh /\ \E k \in 1..MaxParts : Returns("deconcatenate", k, Ok(deconcatenate(omp, k)))

\* omp.split(k)
Split == Fresh /\ \E k \in 1..MaxParts : Returns("split", k, Ok(split(omp, k)))

\* omp.finer(strong)
Finer == Fresh /\ \E strong \in BOOLEAN : Returns("finer", strong, Ok(finer(omp, strong)))

\* omp.fatter()
Fatter == Fresh /\ Returns("fatter", 0, Ok(fatter(omp)))

\* omp.is_finer(co)
\* the groupings handed to fatten: the compositions of 0..MaxOmpOrder + 1
Groupings == UNION {Compositions(n) : n \in 0..(MaxOmpOrder + 1)}

\* omp.fatten(grouping)
Fatten == Fresh /\ \E g \in Groupings : Returns("fatten", g, fatten(omp, g))

\* the shorthand list of omp: the letters of each block, 1 + e zeros between
\* two blocks and t zeros at the end
ZeroList(c, e, t) ==
    concatenate([i \in DOMAIN c |->
        sorted(c[i]) \o [j \in 1..(IF i < Len(c) THEN 1 + e ELSE t) |-> 0]])

\* OrderedMultisetPartitions().from_list(lst), lst a shorthand list of omp
FromList ==
    /\ Fresh
    /\ \E e \in 0..MaxExtra, t \in 0..MaxExtra :
          Returns("from_list", [lst |-> ZeroList(omp, e, t), e |-> e, t |-> t],
                  from_list(ZeroList(omp, e, t)))

IsFiner == Fresh /\ \E co \in Others : Returns("is_finer", co, is_finer(omp, co))

\* omp.minimaj_blocks()
MinimajBlocks == Fresh /\ Returns("minimaj_blocks", 0, Ok(minimaj_blocks(omp)))

\* omp.minimaj()
Minimaj == Fresh /\ Returns("minimaj", 0, Ok(minimaj(omp)))

\* t = omp.to_tableau()
ToTableau == Fresh /\ Returns("to_tableau", 0, Ok(to_tableau(omp)))

\* _to_minimaj_blocks(t) on the tableau just returned
ToMinimajBlocks ==
    /\ call.name = "to_tableau"
    /\ Returns("_to_minimaj_blocks", ret.val, to_minimaj_blocks(ret.val))

NextOps ==
    \/ Deconcatenate
    \/ Split
    \/ Finer
    \/ Fatter
    \/ Fatten
    \/ FromList
    \/ IsFiner
    \/ MinimajBlocks
    \/ Minimaj
    \/ ToTableau
    \/ ToMinimajBlocks

SpecOps == InitOps /\ [][NextOps]_vars

----------------------------------------------------------------------------
(* Binary methods: two partitions are built, then a method is called *)

\* the partitions over 1..MaxPairLetter of order at most MaxPairOrder
PairOmps ==
    {c \in UNION {OmpsOfOrder(d) : d \in 0..MaxPairOrder} : letters(c) \subseteq 1..MaxPairLetter}

InitPair ==
    /\ setOrder \in SetOrders
    /\ cursor = NoCursor
    /\ family = NoFamily
    /\ listed = None
    /\ card = None
    /\ omp \in PairOmps
    /\ call = NoCall
    /\ ret = None
    /\ crystal = NoCrystal
    /\ elt = NoElt

\* omp.shuffle_product(other, overlap), listed
ShuffleProduct_ ==
    /\ Fresh
    /\ \E other \in PairOmps, overlap \in BOOLEAN :
          Returns("shuffle_product", [other |-> other, overlap |-> overlap],
                  shuffle_product(omp, other, overlap))

\* omp.soll_gt(other)
SollGt ==
    /\ Fresh
    /\ \E other \in PairOmps : Returns("soll_gt", other, soll_gt(omp, other))

NextPair == ShuffleProduct_ \/ SollGt

SpecPair == InitPair /\ [][NextPair]_vars

----------------------------------------------------------------------------
(* Families: one is constructed, then asked for membership, iterated, or
   listed and counted *)

\* the values given to a constraint
KwValues(key) ==
    CASE key = "weight" -> {weight(c) : c \in PairOmps}
      [] key = "alphabet" -> {{}, 1..MaxPairLetter}
      [] key = "colour" -> {1}
      [] OTHER -> 0..MaxKw

\* the dictionaries with the keys K
RECURSIVE DictsOver(_)
DictsOver(K) ==
    IF K = {} THEN {<<>>}
    ELSE LET key == CHOOSE k \in K : TRUE
         IN {Put(d, key, v) : d \in DictsOver(K \ {key}), v \in KwValues(key)}

\* the keyword arguments: at most two constraints, among them "colour", which
\* is no constraint of the module; or a pair of bounds with the constraint
\* that overrides it
KwDicts ==
    UNION {DictsOver(K) :
             K \in {L \in SUBSET {"size", "weight", "alphabet", "length", "min_length", "max_length",
                                  "order", "min_order", "max_order", "colour"} : Cardinality(L) <= 2}
                   \cup {{"length", "min_length", "max_length"}, {"order", "min_order", "max_order"},
                         {"weight", "min_order", "max_order"}}}

\* the positional arguments
CtorArgs ==
    {NoArgs}
    \cup {[NoArgs EXCEPT !.shape = "X", !.X = w] : w \in KwValues("weight")}
    \cup {[NoArgs EXCEPT !.shape = "n", !.n = n] : n \in 0..(MaxKw + 1)}
    \cup {[NoArgs EXCEPT !.shape = "A", !.A = A, !.d = d] : A \in KwValues("alphabet"), d \in 0..MaxKw}

\* the lists of lists tested for membership: a partition, a partition and an
\* empty block, a partition and a block with a letter twice
Candidates ==
    UNION {LET x == [i \in DOMAIN c |-> sorted(c[i])]
           IN {x, Append(x, <<>>), Append(x, <<1, 1>>)} : c \in PairOmps}

\* small letters are listed by a Set in increasing order
InitFam ==
    /\ setOrder = [x \in Letters |-> x]
    /\ cursor = NoCursor
    /\ family = NoFamily
    /\ listed = None
    /\ card = None
    /\ omp = <<>>
    /\ call = NoCall
    /\ ret = None
    /\ crystal = NoCrystal
    /\ elt = NoElt

\* family = OrderedMultisetPartitions(*args, **constraints); ret tells whether
\* the call returned (the parent is kept in family) or what it raised
Construct ==
    /\ Fresh
    /\ \E args \in CtorArgs, constraints \in KwDicts :
          LET r == classcall(args, constraints)
          IN /\ call' = Call("OrderedMultisetPartitions", [args |-> args, constraints |-> constraints])
             /\ ret' = IF r.kind = "ok" THEN Ok(TRUE) ELSE r
             /\ family' = IF r.kind = "ok" THEN r.val ELSE NoFamily
    /\ UNCHANGED <<cursor, setOrder, listed, card, omp, crystal, elt>>

\* the family is built and nothing was asked of it yet
Built == family.cls # "none" /\ call.name = "OrderedMultisetPartitions"

\* x in family
Contains ==
    /\ Built
    /\ \E x \in Candidates :
          /\ call' = Call("__contains__", [x |-> x, input |-> call.arg])
          /\ ret' = Ok(contains(family, x))
    /\ UNCHANGED <<cursor, setOrder, family, listed, card, omp, crystal, elt>>

\* it = family.__iter__(): _base_iterator is asked for an iterator and the
\* loop is set up
Iter ==
    /\ Built
    /\ call' = Call("__iter__", [input |-> call.arg])
    /\ cursor' = [stage |-> 0, parity |-> 0, done |-> FALSE,
                  kind |-> IterLoop(family).kind, max |-> IterLoop(family).max]
    /\ UNCHANGED <<setOrder, family, listed, card, omp, ret, crystal, elt>>

\* the iterator runs one pass: the whole of it when there is no loop, else
\* the exit when ell > max_ell, else the pass of the stage. Of a loop without
\* exit the first MaxStage + 1 passes are told apart; the later ones only
\* change the parity of the number of passes run.
Next_ ==
    /\ call.name = "__iter__"
    /\ ~cursor.done
    /\ IF cursor.kind \in {"own", "base"}
       THEN cursor' = [cursor EXCEPT !.stage = 1, !.parity = 1, !.done = TRUE]
       ELSE IF cursor.stage > cursor.max
            THEN cursor' = [cursor EXCEPT !.done = TRUE]
       ELSE cursor' = [cursor EXCEPT !.stage = IF cursor.max = infinity /\ cursor.stage > MaxStage
                                               THEN cursor.stage ELSE cursor.stage + 1,
                                     !.parity = 1 - cursor.parity]
    /\ UNCHANGED <<setOrder, family, listed, card, omp, call, ret, crystal, elt>>

\* what the iterator has yielded so far, in the passes told apart
Yielded == Chain([i \in 1..cursor.stage |-> IterStage(family, i - 1)])

\* a call that never returns
Hangs == [kind |-> "hangs"]

\* everything the iterator of F yields when its loop has an exit
AllYields(F) ==
    IF IterLoop(F).kind \in {"own", "base"} THEN IterStage(F, 0)
    ELSE Chain([i \in 1..(IterLoop(F).max + 1) |-> IterStage(F, i - 1)])

\* the element element_class(P, map(Set, co)): __init__ deletes empty blocks
Element(co) ==
    LET IsBlock(b) == b # {}
    IN SelectSeq(MapSet(co), IsBlock)

\* OrderedMultisetPartitions_X.an_element, alpha the permutation that
\* Permutations_mset(X).an_element() gives: the first block of co that is not
\* a singleton is cut in two; when the loop ends without break, i is the
\* index of the last block, which was already appended
an_element_X(w, alpha) ==
    IF DOMAIN w = {} THEN <<>>
    ELSE LET co == break_at_descents(alpha, TRUE)
             fat == {i \in DOMAIN co : Len(co[i]) # 1}
             i == IF fat = {} THEN Len(co) ELSE Min(fat)
             kept == IF fat = {} THEN co ELSE SubSeq(co, 1, i - 1)
             h == Min({Len(co[i]) \div 2 + 1, Len(co[i])})
         IN Element(kept \o <<SubSeq(co[i], 1, h), SubSeq(co[i], h + 1, Len(co[i]))>>
                         \o SubSeq(co, i + 1, Len(co)))

\* OrderedMultisetPartitions_n.an_element, alpha the composition that
\* Compositions(n, max_part=n//3+1).an_element() gives
an_element_n(alpha) ==
    Element([i \in DOMAIN alpha |->
                LET a == alpha[i]
                IN IF a \in {1, 2, 4} THEN <<a>>
                   ELSE IF a % 2 = 1 THEN <<a \div 2 + 1, a \div 2>>
                   ELSE <<a \div 2, a \div 2 - 1, 1>>])

\* [Subsets_sk(A, a).an_element() for a in alpha]: a subset for each part, or
\* EmptySetError when a part exceeds the alphabet
an_element_A(A, alpha) ==
    IF \E i \in DOMAIN alpha : alpha[i] > Cardinality(A) THEN {Raise("EmptySetError")}
    ELSE {Ok(co) : co \in cartesian_product([i \in DOMAIN alpha |-> Subsets_sk(A, alpha[i])])}

\* the partition as the list of its blocks, each a sorted list
ListOf(co) == [i \in DOMAIN co |-> sorted(co[i])]

\* the first element served by __iter__ (that is in F, when valid is asked
\* for), or EmptySetError at StopIteration. A loop without exit is searched
\* for MaxStage + 1 passes; when these serve nothing, no outcome is given.
FirstServed(F, valid) ==
    LET loop == IterLoop(F)
        n == IF loop.kind \in {"own", "base"} THEN 1
             ELSE IF loop.max = infinity THEN MaxStage + 1 ELSE loop.max + 1
        good == [i \in 1..n |-> {x \in DOMAIN IterStage(F, i - 1) : valid => contains(F, ListOf(x))}]
        hits == {i \in 1..n : good[i] # {}}
    IN IF hits # {} THEN {Ok(x) : x \in good[Min(hits)]}
       ELSE IF loop.kind \in {"own", "base"} \/ loop.max # infinity THEN {Raise("EmptySetError")}
       ELSE {}

\* OrderedMultisetPartition.check, which ClonableArray.__init__ calls on the
\* element just built: ValueError unless the element is in its parent
Checked(F, r) ==
    IF r.kind = "ok" /\ ~contains(F, ListOf(r.val)) THEN Raise("ValueError") ELSE r

\* the an_element of the class of F, over every element that the
\* an_element() of a set of Sage may give
AnElementsOfClass(F) ==
    CASE F.cls = "X" -> {Ok(an_element_X(F.weight, alpha)) : alpha \in Permutations_mset(F.weight)}
      [] F.cls = "n" -> {Ok(an_element_n(alpha)) : alpha \in CompositionsMax(F.n, F.n \div 3 + 1)}
      [] F.cls = "A" -> UNION {an_element_A(F.alphabet, alpha) : alpha \in Compositions(F.order)}
      [] F.cls = "A_constraints" /\ DOMAIN F.constraints = {"length"} ->
            LET k == F.constraints["length"]
                n == Cardinality(F.alphabet)
                ell == F.order
            IN IF ell < k \/ n * k < ell THEN {Raise("EmptySetError")}
               ELSE UNION {an_element_A(F.alphabet, alpha) : alpha \in CompositionsLen(ell, k, n)}
      [] F.cls = "A_constraints" -> FirstServed(F, FALSE)
      [] OTHER -> FirstServed(F, TRUE)

\* the outcomes of F.an_element()
AnElements(F) == {Checked(F, r) : r \in AnElementsOfClass(F)}

\* omp = family.an_element()
AnElement ==
    /\ Built
    /\ \E r \in AnElements(family) :
          /\ call' = Call("an_element", [input |-> call.arg])
          /\ ret' = IF r.kind = "ok" THEN Ok(TRUE) ELSE r
          /\ omp' = IF r.kind = "ok" THEN r.val ELSE omp
    /\ UNCHANGED <<cursor, setOrder, family, listed, card, crystal, elt>>

\* family.list() and family.cardinality(). A family whose category is not
\* FiniteEnumeratedSets refuses both; a finite one runs its iterator to the
\* end, unless its class counts by a formula, and never returns when the loop
\* has no exit.
Materialise ==
    /\ Built
    /\ \E m \in {"list", "cardinality"} :
          LET counts == m = "cardinality" /\ family.cls \in {"X", "n", "A"}
              status == IF ~Finite(family) THEN Raise("NotImplementedError")
                        ELSE IF ~counts /\ IterLoop(family).max = infinity THEN Hangs
                        ELSE Ok(TRUE)
          IN /\ call' = Call(m, [input |-> call.arg])
             /\ ret' = status
             /\ listed' = IF m = "list" /\ status.kind = "ok" THEN Ok(AllYields(family)) ELSE listed
             /\ card' = IF m = "list" \/ status.kind # "ok" THEN card
                        ELSE IF counts THEN Ok(cardinality(family))
                        ELSE Ok(BagSize(AllYields(family)))
    /\ UNCHANGED <<cursor, setOrder, family, omp, crystal, elt>>

NextFam == Construct \/ Contains \/ Iter \/ Next_ \/ Materialise \/ AnElement

SpecFam == InitFam /\ [][NextFam]_vars

\* the consumer of the iterator keeps asking for the next element
SpecFamLive == SpecFam /\ WF_cursor(Next_)

----------------------------------------------------------------------------
(* MinimajCrystal *)

\* no element: what e and f return when the tensor operator is undefined
Absent == [kind |-> "absent"]

\* the bracketing of the letters i and i+1 of the word w, read from the left:
\* a letter i+1 opens a bracket, a letter i closes the last open one;
\* cl lists the positions of the unmatched i, op those of the unmatched i+1
RECURSIVE Bracket(_, _, _, _, _)
Bracket(w, i, p, op, cl) ==
    IF p > Len(w) THEN [cl |-> cl, op |-> op]
    ELSE IF w[p] = i + 1 THEN Bracket(w, i, p + 1, Append(op, p), cl)
    ELSE IF w[p] = i
         THEN IF op # <<>> THEN Bracket(w, i, p + 1, SubSeq(op, 1, Len(op) - 1), cl)
              ELSE Bracket(w, i, p + 1, op, Append(cl, p))
    ELSE Bracket(w, i, p + 1, op, cl)

\* w.e(i) on the tensor product of letters: the leftmost unmatched i+1 becomes i
tensor_e(w, i) ==
    LET b == Bracket(w, i, 1, <<>>, <<>>)
    IN IF b.op = <<>> THEN Absent ELSE Ok([w EXCEPT ![b.op[1]] = i])

\* w.f(i) on the tensor product of letters: the rightmost unmatched i becomes i+1
tensor_f(w, i) ==
    LET b == Bracket(w, i, 1, <<>>, <<>>)
    IN IF b.cl = <<>> THEN Absent ELSE Ok([w EXCEPT ![b.cl[Len(b.cl)]] = i + 1])

\* MinimajCrystal(n, ell, k)
MinimajCrystal(n, ell, k) == [n |-> n, ell |-> ell, k |-> k]

\* self._OMPs = OrderedMultisetPartitions(n, ell, length=k)
CrystalOMPs(P) == OrderedMultisetPartitions_A_constraints(1..P.n, P.ell, [length |-> P.k])

\* the element (word, breaks) that MinimajCrystal.__init__ makes of co
ElementOf(co) ==
    LET t == to_tableau(co)
    IN [word |-> concatenate(t), breaks |-> partial_sum([h \in 1..Len(t) |-> Len(t[h])])]

\* MinimajCrystal.__init__: module_generators
module_generators(P) == {ElementOf(co) : co \in DOMAIN iter_constraints(CrystalOMPs(P))}

\* MinimajCrystal.Element.to_tableau: the rows of the word between the breaks
Element_to_tableau(b) ==
    [j \in 1..(Len(b.breaks) - 1) |-> Slice(b.word, b.breaks[j], b.breaks[j + 1])]

\* MinimajCrystal.Element._minimaj_blocks_from_word_pair
minimaj_blocks_from_word_pair(b) == to_minimaj_blocks(Element_to_tableau(b))

\* MinimajCrystal.Element.e(i)
Element_e(b, i) ==
    LET w == tensor_e(b.word, i)
    IN IF w = Absent THEN Absent ELSE Ok([word |-> w.val, breaks |-> b.breaks])

Element_f_recut(b, i) ==
    LET w == tensor_f(b.word, i)
    IN IF w = Absent THEN Absent ELSE Ok([word |-> w.val, breaks |-> <<0, Len(b.word)>>])

\* MinimajCrystal.Element.f(i)
Element_f(b, i) ==
    LET w == tensor_f(b.word, i)
    IN IF w = Absent THEN Absent ELSE Ok([word |-> w.val, breaks |-> b.breaks])

\* the crystals built: n >= 2 letters, ell >= 1 tensor factors, k >= 0 blocks
Crystals == {MinimajCrystal(n, ell, k) : n \in 2..MaxLetter, ell \in 1..MaxOrder, k \in 0..MaxParts}

InitCrystal ==
    /\ setOrder \in SetOrders
    /\ cursor = NoCursor
    /\ family = NoFamily
    /\ listed = None
    /\ card = None
    /\ omp = <<>>
    /\ call = NoCall
    /\ ret = None
    /\ crystal \in Crystals
    /\ elt \in module_generators(crystal)

Moves(name, i, result) ==
    /\ call' = Call(name, i)
    /\ ret' = result
    /\ elt' = IF result = Absent THEN elt ELSE result.val
    /\ UNCHANGED <<cursor, setOrder, family, listed, card, omp, crystal>>

\* elt = elt.e(i) when it is defined
E == \E i \in 1..(crystal.n - 1) : Moves("e", i, Element_e(elt, i))

\* elt = elt.f(i) when it is defined
F == \E i \in 1..(crystal.n - 1) : Moves("f", i, Element_f(elt, i))

NextCrystal == E \/ F

SpecCrystal == InitCrystal /\ [][NextCrystal]_vars

----------------------------------------------------------------------------
(* Enumeration: properties *)

\* every sequence of nonempty sets of distinct positive integers of total sum n
RECURSIVE AllOfSize(_)
AllOfSize(n) ==
    IF n = 0 THEN {<<>>}
    ELSE UNION {{<<B>> \o r : r \in AllOfSize(n - SumSet(B))} :
                B \in {B \in (SUBSET (1..n)) \ {{}} : SumSet(B) <= n}}

BothDone(cls) == family.cls = cls /\ listed.kind = "ok" /\ card.kind = "ok"

\* C1: iterating the family of a fixed multiset X yields every ordered
\* multiset partition of X, and each of them exactly once.
C1_WeightIterationExactlyOnce ==
    (family.cls = "X" /\ listed.kind = "ok") =>
        /\ DOMAIN listed.val = AllOfWeight(family.weight)
        /\ \A p \in DOMAIN listed.val : listed.val[p] = 1

\* C2: for every multiset X, the empty one included, cardinality() of the
\* fixed-multiset family is the number of partitions its iteration yields.
C2_WeightCardinalityIsCount ==
    BothDone("X") => card.val = BagSize(listed.val)

\* C3: for every nonempty alphabet A and order d >= 0, cardinality() of the
\* fixed-alphabet-and-order family is the number of partitions its iteration yields.
C3_OrderCardinalityIsCount ==
    BothDone("A") => card.val = BagSize(listed.val)

\* C4: for every n >= 0, cardinality() of the fixed-size family is the number
\* of distinct partitions _iterator_size(n) yields, and these are exactly the
\* sequences of nonempty sets of distinct positive integers of total sum n.
C4_SizeCardinalityIsCount ==
    BothDone("n") =>
        /\ card.val = Cardinality(DOMAIN listed.val)
        /\ DOMAIN listed.val = AllOfSize(family.n)

\* C4 witness: a family of size n > 5 (the polynomial branch) listed and counted
C4_Witness == BothDone("n") /\ family.n > 5 /\ card.val > 25

----------------------------------------------------------------------------
(* Methods: properties *)

Called(name) == call.name = name

\* C5: for every partition c of a finite family, _to_minimaj_blocks applied
\* to c.to_tableau() returns exactly c.minimaj_blocks().
C5_TableauRoundTrip ==
    Called("_to_minimaj_blocks") => ret = Ok(minimaj_blocks(omp))

\* C7: c.is_finer(d) returns True exactly when c is a member of d.finer() and
\* False otherwise; in particular it returns True when c equals d.
C7_IsFinerIsMembership ==
    Called("is_finer") => ret = Ok(omp \in finer(call.arg, FALSE))

\* C8: the intersection of c.finer() and c.fatter() is exactly {c}.
C8_FinerMeetsFatterInSelf ==
    /\ (Called("finer") /\ call.arg = FALSE) => ret.val \cap fatter(omp) = {omp}
    /\ Called("fatter") => ret.val \cap finer(omp, FALSE) = {omp}

\* C8 witness: fatter() of a partition that has both a proper refinement and a
\* proper fattening has been computed
C8_Witness ==
    /\ Called("fatter")
    /\ Cardinality(ret.val) > 1
    /\ Cardinality(finer(omp, FALSE)) > 1

\* C9: for every k >= 1, c.deconcatenate(k) has exactly
\* binomial(length(c) + k - 1, k - 1) distinct k-tuples, and the concatenation
\* of the components of each of them is c.
C9_DeconcatenateCount ==
    Called("deconcatenate") =>
        /\ Cardinality(ret.val) = binomial(Len(omp) + call.arg - 1, call.arg - 1)
        /\ \A t \in ret.val : Len(t) = call.arg /\ concatenate(t) = omp

\* C9 witness: a partition of three blocks cut into three pieces, ten ways
C9_Witness ==
    Called("deconcatenate") /\ call.arg = 3 /\ Len(omp) = 3 /\ Cardinality(ret.val) = 10

\* the product over the blocks B of c of k^|B|
SplitBound(c, k) == ProdSeq([i \in 1..Len(c) |-> Pow(k, Cardinality(c[i]))])

\* no letter of c occurs in two blocks
BlocksDisjoint(c) == \A i, j \in DOMAIN c : i # j => c[i] \cap c[j] = {}

\* C10 as stated: the number of distinct k-tuples of c.split(k) is the product
\* over the blocks B of c of k^|B|.
C10_SplitCountIsProduct ==
    Called("split") => Cardinality(ret.val) = SplitBound(omp, call.arg)

\* C10 amended: the number of distinct k-tuples of c.split(k) is at most the
\* product over the blocks B of c of k^|B|, and equals it when no letter of c
\* occurs in two blocks.
C10_SplitCountAtMostProduct ==
    Called("split") =>
        /\ Cardinality(ret.val) <= SplitBound(omp, call.arg)
        /\ BlocksDisjoint(omp) => Cardinality(ret.val) = SplitBound(omp, call.arg)

\* C10 witness: a split of a partition with a repeated letter has fewer
\* tuples than the product
C10_Witness ==
    Called("split") /\ ~BlocksDisjoint(omp) /\ Cardinality(ret.val) < SplitBound(omp, call.arg)

----------------------------------------------------------------------------
(* MinimajCrystal: properties *)

\* the partition whose minimaj blocks are mu
BlocksToOmp(mu) == [j \in 1..Len(mu) |-> Range(mu[j])]

\* the element b decodes to the minimaj blocks of a partition of order ell
\* with exactly k blocks over 1..n
DecodesInto(b, P) ==
    LET mu == minimaj_blocks_from_word_pair(b)
    IN /\ mu.kind = "ok"
       /\ LET co == BlocksToOmp(mu.val)
          IN /\ has_valid_blocks(co)
             /\ mu.val = minimaj_blocks(co)
             /\ order(co) = P.ell
             /\ Len(co) = P.k
             /\ letters(co) \subseteq 1..P.n

\* C6: every element reachable from the generators of MinimajCrystal(n, ell, k)
\* by e(i) and f(i) decodes to the minimaj blocks of a partition of order ell
\* with exactly k blocks over 1..n (and is a generator: the closure has as
\* many elements as the family of these partitions).
C6_ClosureDecodesToKBlocks ==
    crystal.n > 0 => (DecodesInto(elt, crystal) /\ elt \in module_generators(crystal))

\* the indices of the blocks of the i-th group of the grouping g
GroupIdx(g, i) == {j \in 1..SumSeq(g) : SumSeq(SubSeq(g, 1, i - 1)) < j /\ j <= SumSeq(SubSeq(g, 1, i))}

\* some group of g holds two blocks of c with a common letter
GroupRepeats(c, g) ==
    \E i \in 1..Len(g) : \E j, k \in GroupIdx(g, i) : j # k /\ c[j] \cap c[k] # {}

\* C20: c.fatten(g) raises an error when sum(g) differs from the length of c
\* or a group of g holds a letter twice; otherwise it returns the partition
\* whose i-th block is the union of the i-th group, and fatten([1,...,1])
\* is c.
C20_FattenGrouping ==
    Called("fatten") =>
        LET g == call.arg
        IN IF SumSeq(g) # Len(omp) THEN ret.kind = "raise"
           ELSE IF GroupRepeats(omp, g) THEN ret.kind = "raise"
           ELSE /\ ret = Ok([i \in 1..Len(g) |-> UNION {omp[j] : j \in GroupIdx(g, i)}])
                /\ (\A i \in 1..Len(g) : g[i] = 1) => ret = Ok(omp)

\* C20 witness: a partition of three blocks whose first two merge and whose
\* last two would repeat a letter, fattened by (2, 1)
C20_Witness ==
    /\ Called("fatten")
    /\ Len(omp) = 3 /\ call.arg = <<2, 1>>
    /\ omp[2] \cap omp[3] # {}
    /\ ret.kind = "ok" /\ Len(ret.val) = 2

\* C18 as stated: the partition built from the shorthand list of c, with
\* the separator 0 between consecutive blocks, is c, and extra consecutive
\* or trailing separators do not change the result.
C18_FromListRoundTrip ==
    Called("from_list") => ret = Ok(omp)

\* C18 amended: the round trip returns c unless c is a single block of two
\* or more letters written without a trailing separator; that list holds no
\* separator and is read as singleton blocks.
C18_FromListRoundTripSeparated ==
    Called("from_list") =>
        IF Len(omp) = 1 /\ Cardinality(omp[1]) > 1 /\ call.arg.t = 0
        THEN ret = Ok([i \in 1..Cardinality(omp[1]) |-> {sorted(omp[1])[i]}])
        ELSE ret = Ok(omp)

\* C18 witness: a partition of several blocks, one of them with two letters,
\* read back from a list with doubled and trailing separators
C18_Witness ==
    /\ Called("from_list")
    /\ Len(omp) >= 2 /\ \E i \in DOMAIN omp : Cardinality(omp[i]) >= 2
    /\ call.arg.e = 1 /\ call.arg.t = 1
    /\ ret = Ok(omp)

----------------------------------------------------------------------------
(* Binary methods: properties *)

\* t interleaves a and b: some positions of t carry a in order, the others b
IsInterleaving(t, a, b) ==
    /\ Len(t) = Len(a) + Len(b)
    /\ \E Pos \in SUBSET (1..Len(t)) :
          LET pa == sorted(Pos)
              pb == sorted((1..Len(t)) \ Pos)
          IN /\ Len(pa) = Len(a)
             /\ [i \in 1..Len(pa) |-> t[pa[i]]] = a
             /\ [i \in 1..Len(pb) |-> t[pb[i]]] = b

\* C11: a.shuffle_product(b, overlap=False) yields binomial(length(a) +
\* length(b), length(a)) terms, counted with multiplicity, and each term
\* interleaves the blocks of a and the blocks of b, each kept in order.
C11_ShuffleCount ==
    (Called("shuffle_product") /\ ~call.arg.overlap) =>
        /\ ret.kind = "ok"
        /\ BagSize(ret.val) = binomial(Len(omp) + Len(call.arg.other), Len(omp))
        /\ \A t \in DOMAIN ret.val : IsInterleaving(t, omp, call.arg.other)

\* C11 witness: two partitions of two blocks each, six terms, one of them twice
C11_Witness ==
    /\ Called("shuffle_product") /\ ~call.arg.overlap
    /\ Len(omp) = 2 /\ Len(call.arg.other) = 2
    /\ BagSize(ret.val) = 6
    /\ \E t \in DOMAIN ret.val : ret.val[t] > 1

\* C19: soll_gt is a strict total order: a.soll_gt(b) and b.soll_gt(a) both
\* return a boolean, exactly one of them True when a # b, both False when
\* a = b.
C19_SollGtStrictTotal ==
    Called("soll_gt") =>
        LET back == soll_gt(call.arg, omp)
        IN /\ ret.kind = "ok" /\ back.kind = "ok"
           /\ call.arg # omp => (ret.val # back.val)
           /\ call.arg = omp => (~ret.val /\ ~back.val)

\* C19 away from the lexicographic step: the comparison is decided by size,
\* order or length, and soll_gt is a strict comparison there
C19_DecidedBeforeLex ==
    (/\ Called("soll_gt")
     /\ <<size(omp), order(omp), Len(omp)>> # <<size(call.arg), order(call.arg), Len(call.arg)>>) =>
        /\ ret.kind = "ok" /\ soll_gt(call.arg, omp).kind = "ok"
        /\ ret.val # soll_gt(call.arg, omp).val

----------------------------------------------------------------------------
(* Families: properties *)

\* the constraints attached to the family of an input: the keywords that the
\* positional arguments do not override, an explicit length standing for
\* min_length and max_length, an explicit order for min_order and max_order,
\* a weight for the alphabet, the size and the orders
Attached(input) ==
    LET shape == input.args.shape
        kept == Pop(input.constraints,
                    CASE shape = "X" -> {"size", "weight", "alphabet", "order"}
                      [] shape = "n" -> {"size"}
                      [] shape = "A" /\ input.args.A # {} -> {"alphabet", "order"}
                      [] OTHER -> {})
    IN NormOrder(NormLength(kept).val).val

\* x has nonempty duplicate-free blocks and the base shape of the input
BaseShape(input, x) ==
    /\ \A i \in DOMAIN x : x[i] # <<>> /\ \A j, k \in DOMAIN x[i] : j # k => x[i][j] # x[i][k]
    /\ CASE input.args.shape = "X" -> get_weight(concatenate(x)) = input.args.X
         [] input.args.shape = "n" -> SumSeq(concatenate(x)) = input.args.n
         [] input.args.shape = "A" -> Len(concatenate(x)) = input.args.d
                                      /\ Range(concatenate(x)) \subseteq input.args.A
         [] OTHER -> TRUE

\* C12: for every family F and every list of blocks x, x in F is True exactly
\* when x has nonempty duplicate-free blocks, matches the base shape of F and
\* satisfies every constraint attached to F, those of value 0 included.
C12_MembershipIsShapeAndConstraints ==
    (Called("__contains__") /\ "colour" \notin DOMAIN call.arg.input.constraints) =>
        LET x == call.arg.x
            input == call.arg.input
        IN ret.val = (/\ BaseShape(input, x)
                      /\ \A key \in DOMAIN Attached(input) :
                            pass_test(MapSet(x), key, Attached(input)[key]))

\* C12 where it holds: a family with positional arguments (a nonempty
\* alphabet and no bound on the order, if an alphabet and an order are given),
\* or with no constraint at all, whose constraints have nonzero, nonempty values
C12_MembershipAwayFromZero ==
    (/\ Called("__contains__")
     /\ "colour" \notin DOMAIN call.arg.input.constraints
     /\ call.arg.input.args.shape = "none" => DOMAIN call.arg.input.constraints = {}
     /\ call.arg.input.args.shape = "A" =>
            /\ call.arg.input.args.A # {}
            /\ (DOMAIN call.arg.input.constraints) \cap {"min_order", "max_order"} = {}
     /\ \A key \in DOMAIN Attached(call.arg.input) : Truthy(key, Attached(call.arg.input)[key])
     /\ \A key \in DOMAIN call.arg.input.constraints : Truthy(key, call.arg.input.constraints[key])) =>
        LET x == call.arg.x
            input == call.arg.input
        IN ret.val = (/\ BaseShape(input, x)
                      /\ \A key \in DOMAIN Attached(input) :
                            pass_test(MapSet(x), key, Attached(input)[key]))

\* the size of the multiset of weight w
WeightSize(w) == SumSeq([i \in 1..Len(SetList(DOMAIN w)) |-> SetList(DOMAIN w)[i] * w[SetList(DOMAIN w)[i]]])

\* the weights W that the input pins through its positional arguments and
\* the keywords weight and size: a positional multiset W; a positional size
\* and the weight W of that size; a positional alphabet and order and the
\* weight W over it of that order, or a size that only one multiset W over
\* the alphabet of that order has
PinnedWeights(input) ==
    LET a == input.args
        c == input.constraints
        over == {w \in Multisets : DOMAIN w \subseteq a.A /\ SumBag(w, DOMAIN w) = a.d}
    IN CASE a.shape = "X" /\ (DOMAIN c) \cap {"size", "weight", "alphabet", "order"} = {} -> {a.X}
         [] a.shape = "n" /\ "weight" \in DOMAIN c -> {w \in {c["weight"]} : WeightSize(w) = a.n}
         [] a.shape = "A" /\ "weight" \in DOMAIN c -> {c["weight"]} \cap over
         [] a.shape = "A" /\ "size" \in DOMAIN c /\ "weight" \notin DOMAIN c ->
                LET fit == {w \in over : WeightSize(w) = c["size"]}
                IN IF Cardinality(fit) = 1 THEN fit ELSE {}
         [] OTHER -> {}

\* the other constraints of the input
Extras(input) ==
    Pop(input.constraints, {"size", "weight", "alphabet", "order"})

\* the iteration of the family has been run to its end
Exhausted == call.name = "__iter__" /\ cursor.done

\* C13: a family built through positional arguments yields, when iterated,
\* the same set of partitions as the family given by the keyword weight W
\* and the same other constraints, W the weight its arguments pin.
C13_ShapesYieldSameSet ==
    (Exhausted /\ PinnedWeights(call.arg.input) # {}) =>
        LET W == CHOOSE w \in PinnedWeights(call.arg.input) : TRUE
            byKeyword == classcall(NoArgs, Put(Extras(call.arg.input), "weight", W))
        IN /\ byKeyword.kind = "ok"
           /\ IterLoop(byKeyword.val).kind = "base"
           /\ DOMAIN IterStage(byKeyword.val, 0) = DOMAIN Yielded

\* C13 for a nonempty multiset W and other constraints on the length only,
\* none of them 0
C13_ShapesYieldSameSetNonempty ==
    (/\ Exhausted
     /\ PinnedWeights(call.arg.input) # {}
     /\ PinnedWeights(call.arg.input) # {<<>>}
     /\ DOMAIN Extras(call.arg.input) \subseteq {"length", "min_length", "max_length"}
     /\ \A key \in DOMAIN Extras(call.arg.input) : Extras(call.arg.input)[key] # 0) =>
        LET W == CHOOSE w \in PinnedWeights(call.arg.input) : TRUE
            byKeyword == classcall(NoArgs, Put(Extras(call.arg.input), "weight", W))
        IN /\ byKeyword.kind = "ok"
           /\ IterLoop(byKeyword.val).kind = "base"
           /\ DOMAIN IterStage(byKeyword.val, 0) = DOMAIN Yielded

\* C14: the iteration of a family classified finite terminates: once begun,
\* it reaches its end.
C14_FiniteIterationTerminates ==
    (call.name = "__iter__" /\ Finite(family)) ~> cursor.done

\* C14 as a bound on the loop: the iterator of a family classified finite
\* never runs the loop over all sizes, which has no exit
C14_FiniteNeverLoopsForever ==
    (call.name = "__iter__" /\ Finite(family)) => cursor.max # infinity

\* C14 for the families whose pinning constraint is not empty: the weight
\* and the alphabet given by keyword are not
C14_PinnedNonemptyTerminates ==
    (/\ call.name = "__iter__"
     /\ Finite(family)
     /\ \A key \in {"weight", "alphabet"} \cap DOMAIN call.arg.input.constraints :
            Truthy(key, call.arg.input.constraints[key])) ~> cursor.done

\* the input pins no weight and no size, and no alphabet together with a
\* length, a largest length, an order or a largest order
NotPinned(input) ==
    /\ input.args.shape = "none"
    /\ (DOMAIN input.constraints) \cap {"weight", "size"} = {}
    /\ \/ "alphabet" \notin DOMAIN input.constraints
       \/ (DOMAIN input.constraints) \cap {"length", "max_length", "order", "max_order"} = {}

C16_UnknownKeyRejected ==
    (Called("OrderedMultisetPartitions") /\ "colour" \in DOMAIN call.arg.constraints) =>
        ret.kind = "raise"

\* the keywords that the positional arguments do not replace
Kept(input) ==
    Pop(input.constraints,
        CASE input.args.shape = "X" -> {"size", "weight", "alphabet", "order"}
          [] input.args.shape = "n" -> {"size"}
          [] input.args.shape = "A" /\ input.args.A # {} -> {"alphabet", "order"}
          [] OTHER -> {})

\* the dictionary c holds both bounds and the lower exceeds the upper
Crossed(c, lower, upper) ==
    {lower, upper} \subseteq DOMAIN c /\ c[lower] > c[upper]

\* C17: constructing a family whose constraints contain min_length >
\* max_length, or min_order > max_order, fails with an error at construction,
\* whatever other constraints are supplied.
C17_CrossedBoundsRejected ==
    (/\ Called("OrderedMultisetPartitions")
     /\ \/ Crossed(call.arg.constraints, "min_length", "max_length")
        \/ Crossed(call.arg.constraints, "min_order", "max_order")) =>
        ret.kind = "raise"

\* C17, amended: the construction fails when min_length > max_length and no
\* length is given, or when min_order > max_order and neither an order nor a
\* weight is given by a keyword that the positional arguments do not replace.
C17_CrossedBoundsRejectedUnlessOverridden ==
    (/\ Called("OrderedMultisetPartitions")
     /\ \/ /\ Crossed(Kept(call.arg), "min_length", "max_length")
           /\ "length" \notin DOMAIN Kept(call.arg)
        \/ /\ Crossed(Kept(call.arg), "min_order", "max_order")
           /\ (DOMAIN Kept(call.arg)) \cap {"order", "weight"} = {}) =>
        ret.kind = "raise"

\* min_length = 2 and max_length = 1 alone were refused by the assertion
C17_Witness ==
    /\ Called("OrderedMultisetPartitions")
    /\ call.arg.args.shape = "none"
    /\ DOMAIN call.arg.constraints = {"min_length", "max_length"}
    /\ call.arg.constraints["min_length"] = 2
    /\ call.arg.constraints["max_length"] = 1
    /\ ret = Raise("AssertionError")

----------------------------------------------------------------------------
(* Refinement and minimaj: properties *)

\* the cuts of the list w into contiguous nonempty pieces, each piece a set:
\* one for every set of places 1..Len(w)-1 where a new piece starts
CutsOfList(w) ==
    {LET st == sorted({0} \cup D)
         en == [i \in 1..Len(st) |-> IF i = Len(st) THEN Len(w) ELSE st[i + 1]]
     IN [i \in 1..Len(st) |-> {w[q] : q \in (st[i] + 1)..en[i]}] : D \in SUBSET (1..(Len(w) - 1))}

\* the partitions made by cutting every block of c, written as its ascending
\* sorted list, into contiguous nonempty pieces
RECURSIVE SortedCuts(_)
SortedCuts(c) ==
    IF c = <<>> THEN {<<>>}
    ELSE {h \o t : h \in CutsOfList(sorted(Head(c))), t \in SortedCuts(Tail(c))}

\* C26: c.finer(strong=True) is exactly the set of partitions obtained by
\* cutting each block, as its ascending sorted list, into contiguous nonempty
\* pieces; it has prod 2^(|B_i|-1) elements and lies in c.finer(strong=False).
C26_StrongFinerIsSortedCuts ==
    (Called("finer") /\ call.arg = TRUE) =>
        /\ ret.val = SortedCuts(omp)
        /\ Cardinality(ret.val) = ProdSeq([i \in DOMAIN omp |-> Pow(2, Cardinality(omp[i]) - 1)])
        /\ ret.val \subseteq finer(omp, FALSE)

\* C26 when the blocks are listed in increasing order
C26_StrongFinerOfSortedLists ==
    (Called("finer") /\ call.arg = TRUE /\ \A x, y \in Letters : x < y => setOrder[x] < setOrder[y]) =>
        /\ ret.val = SortedCuts(omp)
        /\ Cardinality(ret.val) = ProdSeq([i \in DOMAIN omp |-> Pow(2, Cardinality(omp[i]) - 1)])
        /\ ret.val \subseteq finer(omp, FALSE)

\* C27: minimaj_blocks returns words W_1..W_k, W_k the last block sorted
\* and, for i < k, W_i the letters of B_i greater than the first letter of
\* W_{i+1} in increasing order, then the others in increasing order; each
\* W_i rearranges B_i and has at most one descent.
C27_MinimajBlocksRule ==
    Called("minimaj_blocks") =>
        LET W == ret.val
            k == Len(omp)
        IN /\ Len(W) = k
           /\ k > 0 => W[k] = sorted(omp[k])
           /\ \A i \in 1..(k - 1) :
                 W[i] = sorted({x \in omp[i] : x > W[i + 1][1]})
                        \o sorted({x \in omp[i] : x <= W[i + 1][1]})
           /\ \A i \in 1..k :
                 /\ Range(W[i]) = omp[i]
                 /\ Len(W[i]) = Cardinality(omp[i])
                 /\ Cardinality(descents(W[i])) <= 1

\* a block before the last came out with a descent, after a letter that
\* equals the first letter of the next word
C27_Witness ==
    /\ Called("minimaj_blocks")
    /\ Len(omp) >= 2
    /\ \E i \in 1..(Len(omp) - 1) :
          /\ descents(ret.val[i]) # {}
          /\ ret.val[i + 1][1] \in omp[i]

\* the orders the letters of the block B can be written in
Orderings(B) ==
    {w \in [1..Cardinality(B) -> B] : \A i, j \in 1..Cardinality(B) : i # j => w[i] # w[j]}

\* the words made by choosing an order inside each block of c and
\* concatenating the blocks in order
RECURSIVE BlockWords(_)
BlockWords(c) ==
    IF c = <<>> THEN {<<>>}
    ELSE {h \o t : h \in Orderings(Head(c)), t \in BlockWords(Tail(c))}

\* the major index of w: the sum of the 1-indexed positions of its descents
MajorIndex(w) == SumSet({i \in 1..(Len(w) - 1) : w[i] > w[i + 1]})

\* C28: c.minimaj() is the minimum of the major index over the words
\* obtained by ordering the letters inside each block and concatenating the
\* blocks in order; it is 0 on the empty partition.
C28_MinimajIsMinimumMajorIndex ==
    Called("minimaj") =>
        /\ \E w \in BlockWords(omp) : MajorIndex(w) = ret.val
        /\ \A w \in BlockWords(omp) : MajorIndex(w) >= ret.val
        /\ omp = <<>> => ret.val = 0

\* the minimaj is positive and some ordering of the blocks has a larger
\* major index
C28_Witness ==
    /\ Called("minimaj")
    /\ ret.val > 0
    /\ \E w \in BlockWords(omp) : MajorIndex(w) > ret.val

----------------------------------------------------------------------------
(* Overlapping shuffles: properties *)

\* t shuffles a and b, a block of a and a block of b merged only when they
\* are disjoint
RECURSIVE IsOverlapShuffle(_, _, _)
IsOverlapShuffle(t, a, b) ==
    IF t = <<>> THEN a = <<>> /\ b = <<>>
    ELSE \/ a # <<>> /\ Head(t) = Head(a) /\ IsOverlapShuffle(Tail(t), Tail(a), b)
         \/ b # <<>> /\ Head(t) = Head(b) /\ IsOverlapShuffle(Tail(t), a, Tail(b))
         \/ /\ a # <<>> /\ b # <<>>
            /\ Head(a) \cap Head(b) = {}
            /\ Head(t) = Head(a) \cup Head(b)
            /\ IsOverlapShuffle(Tail(t), Tail(a), Tail(b))

\* how many blocks of c hold the letter x
Occurrences(c, x) == Cardinality({i \in DOMAIN c : x \in c[i]})

\* the weight of the multiset sum of a and b
SumWeight(a, b) ==
    [x \in letters(a) \cup letters(b) |-> Occurrences(a, x) + Occurrences(b, x)]

\* C24: every term of a.shuffle_product(b, overlap=True) is a partition with
\* nonempty blocks whose multiset is the multiset sum of a and b; a block
\* merged from a block of a and a block of b appears only when the two are
\* disjoint; and every shuffle of a and b without overlap is among the terms.
C24_OverlapShuffleTerms ==
    (Called("shuffle_product") /\ call.arg.overlap) =>
        /\ ret.kind = "ok"
        /\ \A t \in DOMAIN ret.val :
              /\ \A i \in DOMAIN t : t[i] # {}
              /\ [x \in letters(t) |-> Occurrences(t, x)] = SumWeight(omp, call.arg.other)
              /\ IsOverlapShuffle(t, omp, call.arg.other)
        /\ \A t \in AllOfWeight(SumWeight(omp, call.arg.other)) :
              IsInterleaving(t, omp, call.arg.other) => t \in DOMAIN ret.val

\* a block of a and a block of b were merged in a term, and two other blocks,
\* which share a letter, were not
C24_Witness ==
    /\ Called("shuffle_product") /\ call.arg.overlap
    /\ ret.kind = "ok"
    /\ \E t \in DOMAIN ret.val : Len(t) < Len(omp) + Len(call.arg.other)
    /\ \E i \in DOMAIN omp, j \in DOMAIN call.arg.other : omp[i] \cap call.arg.other[j] # {}

----------------------------------------------------------------------------
(* MinimajCrystal: breakpoints and operators *)

\* C22: for every element of MinimajCrystal(n, ell, k) built from a
\* partition with k blocks, the breakpoints are a strictly increasing
\* sequence that cuts the word of length ell into exactly k contiguous rows.
C22_BreaksStrictlyCutKRows ==
    crystal.k >= 1 =>
        /\ Len(elt.word) = crystal.ell
        /\ elt.breaks[1] = 0 /\ elt.breaks[Len(elt.breaks)] = crystal.ell
        /\ \A j \in 1..(Len(elt.breaks) - 1) : elt.breaks[j] < elt.breaks[j + 1]
        /\ Len(elt.breaks) - 1 = crystal.k

\* C22, amended: the breakpoints are a nondecreasing sequence from 0 to ell
\* that cuts the word of length ell into contiguous rows, some of them
\* possibly empty, the last of which has k letters.
C22_BreaksCutRowsLastOfK ==
    crystal.k >= 1 =>
        /\ Len(elt.word) = crystal.ell
        /\ Len(elt.breaks) >= 2
        /\ elt.breaks[1] = 0 /\ elt.breaks[Len(elt.breaks)] = crystal.ell
        /\ \A j \in 1..(Len(elt.breaks) - 1) : elt.breaks[j] <= elt.breaks[j + 1]
        /\ elt.breaks[Len(elt.breaks)] - elt.breaks[Len(elt.breaks) - 1] = crystal.k

\* an element of a crystal with two blocks or more, moved by e or f, has an
\* empty row and a number of rows other than k
C22_Witness ==
    /\ crystal.k >= 2
    /\ call.name \in {"e", "f"}
    /\ ret # Absent
    /\ \E j \in 1..(Len(elt.breaks) - 1) : elt.breaks[j] = elt.breaks[j + 1]
    /\ Len(elt.breaks) - 1 # crystal.k

\* C23: e(i) and f(i) are partial inverses that leave the breakpoints
\* unchanged: when f(i) takes b to b', e(i) takes b' to b, and when e(i)
\* takes b to b', f(i) takes b' to b; b and b' have the same breakpoints; and
\* e(i), f(i) return no element exactly when the operator on the word does.
C23_PartialInverses ==
    [][((call'.name = "f") =>
            (/\ (ret' = Absent) <=> (tensor_f(elt.word, call'.arg) = Absent)
             /\ (ret' # Absent) =>
                   (/\ elt'.breaks = elt.breaks
                    /\ elt'.word = tensor_f(elt.word, call'.arg).val
                    /\ Element_e(elt', call'.arg) = Ok(elt))))
       /\ ((call'.name = "e") =>
            (/\ (ret' = Absent) <=> (tensor_e(elt.word, call'.arg) = Absent)
             /\ (ret' # Absent) =>
                   (/\ elt'.breaks = elt.breaks
                    /\ elt'.word = tensor_e(elt.word, call'.arg).val
                    /\ Element_f(elt', call'.arg) = Ok(elt))))]_vars

\* f(i) has moved an element with three rows or more, and e(i) is defined on
\* the result
C23_Witness ==
    /\ call.name = "f"
    /\ ret # Absent
    /\ ret.val = elt
    /\ Len(elt.breaks) >= 4
    /\ Element_e(elt, call.arg) # Absent

----------------------------------------------------------------------------
(* Families: an element, canonical constraints, what iteration yields *)

\* C21: when F contains at least one partition, F.an_element() returns a
\* partition x with x in F; when F is empty, it raises EmptySetError. (Stated
\* here for the partitions over the letters of PairOmps: one of them in F
\* makes F nonempty, and an error is EmptySetError and finds none of them in F.)
C21_AnElementIsInFamily ==
    Called("an_element") =>
        LET some == \E c \in PairOmps : contains(family, ListOf(c))
        IN /\ some => ret.kind = "ok" /\ contains(family, ListOf(omp))
           /\ ret.kind # "ok" => ret = Raise("EmptySetError") /\ ~some

\* C21 for the families of a size and of a size with constraints
C21_AnElementOfSize ==
    (Called("an_element") /\ family.cls = "n") =>
        ret.kind = "ok" /\ contains(family, ListOf(omp))

\* the constraints c with lo and hi left out when key is given, and with
\* key = k in their place when both are given and equal to k
Collapse(c, key, lo, hi) ==
    IF key \in DOMAIN c THEN Pop(c, {lo, hi})
    ELSE IF {lo, hi} \subseteq DOMAIN c /\ c[lo] = c[hi] THEN Put(Pop(c, {lo, hi}), key, c[lo])
    ELSE c

\* the constraints in canonical form
Canonical(c) ==
    Collapse(Collapse(c, "length", "min_length", "max_length"), "order", "min_order", "max_order")

\* the partitions that the iterator of Fam yields: all of them when its loop
\* ends, else those of its first passes
Enumerated(Fam, passes) ==
    IF IterLoop(Fam).max # infinity THEN DOMAIN AllYields(Fam)
    ELSE DOMAIN Chain([i \in 1..passes |-> IterStage(Fam, i - 1)])

\* the family of the canonical constraints enumerates what family does
SameAsCanonical(input) ==
    LET canon == classcall(input.args, Canonical(input.constraints))
    IN canon.kind = "ok" =>
          /\ ret.kind = "ok"
          /\ (IterLoop(canon.val).max = infinity) = (IterLoop(family).max = infinity)
          /\ \A passes \in 0..(MaxStage + 1) :
                Enumerated(canon.val, passes) = Enumerated(family, passes)

\* the arguments that the family was called with
Input == IF Called("__iter__") THEN call.arg.input ELSE call.arg

\* C25: a family built with length = k and any min_length, max_length
\* enumerates exactly the partitions of the family built with length = k
\* alone (the same for order with min_order, max_order), and a family built
\* with min_length = max_length = k enumerates exactly those of length = k.
C25_CanonicalConstraintsSameFamily ==
    (/\ Called("OrderedMultisetPartitions") \/ Called("__iter__")
     /\ Canonical(Input.constraints) # Input.constraints) => SameAsCanonical(Input)

\* C25 for the length, and for the order when no positional argument
\* replaces the keyword order
C25_CanonicalWhereKept ==
    (/\ Called("OrderedMultisetPartitions") \/ Called("__iter__")
     /\ Canonical(Input.constraints) # Input.constraints
     /\ \/ Collapse(Input.constraints, "order", "min_order", "max_order") = Input.constraints
        \/ Kept([Input EXCEPT !.constraints = [order |-> 0]]) # <<>>) =>
        SameAsCanonical(Input)

\* the candidates co of the passes so far on which ``yield
\* self.element_class(self, co)`` raises ValueError instead of yielding:
\* ClonableArray.__init__ calls check(), which asks for co in self
Refused == {co \in DOMAIN Yielded : ~contains(family, ListOf(co))}

\* C29: for every family F, every partition yielded while iterating F has
\* nonempty duplicate-free blocks, satisfies x in F and every constraint of
\* F, and no partition is yielded twice in one iteration.
C29_YieldsValidOnce ==
    (Called("__iter__") /\ "colour" \notin DOMAIN Input.constraints) =>
        \A co \in (DOMAIN Yielded) \ Refused :
            /\ has_valid_blocks(co)
            /\ contains(family, ListOf(co))
            /\ \A key \in DOMAIN Attached(Input) : pass_test(co, key, Attached(Input)[key])
            /\ Yielded[co] = 1

\* C29 where it holds: the Sets iterate in sorted order, a positional
\* alphabet is not empty and comes with no bound on the order, and the
\* constraints have nonzero, nonempty values
C29_YieldsValidOnceAwayFromZero ==
    (/\ Called("__iter__")
     /\ "colour" \notin DOMAIN Input.constraints
     /\ Input.args.shape = "A" =>
            /\ Input.args.A # {}
            /\ (DOMAIN Input.constraints) \cap {"min_order", "max_order"} = {}
     /\ \A key \in DOMAIN Input.constraints : Truthy(key, Input.constraints[key])) =>
        \A co \in (DOMAIN Yielded) \ Refused :
            /\ has_valid_blocks(co)
            /\ contains(family, ListOf(co))
            /\ \A key \in DOMAIN Attached(Input) : pass_test(co, key, Attached(Input)[key])
            /\ Yielded[co] = 1

\* the family has no positional argument and only length or order constraints
Generic(input) ==
    /\ input.args.shape = "none"
    /\ DOMAIN input.constraints \subseteq
          {"length", "min_length", "max_length", "order", "min_order", "max_order"}

\* the ordered multiset partitions of positive integers of the first sizes
\* that satisfy every constraint of the input
Awaited(input) ==
    {co \in UNION {AllOfSize(n) : n \in 0..MaxStage} :
        \A key \in DOMAIN Attached(input) : pass_test(co, key, Attached(input)[key])}

\* C30: iterating a generic family (no alphabet, size or weight pinned)
\* yields partitions in nondecreasing size, and every partition of positive
\* integers that satisfies the constraints of the family is yielded after
\* finitely many steps.
C30_GenericYieldsBySizeEventually ==
    /\ []((Called("__iter__") /\ Generic(Input)) =>
            /\ cursor.kind = "size"
            /\ Refused = {}
            /\ \A i \in 1..cursor.stage :
                  \A co \in DOMAIN IterStage(family, i - 1) : size(co) = i - 1)
    /\ (Called("__iter__") /\ Generic(Input)) ~>
            (Called("__iter__") /\ Awaited(Input) \subseteq DOMAIN Yielded)

\* the iterator of a family with a length and an order has yielded a
\* partition of the largest size and has held others back
C30_Witness ==
    /\ Called("__iter__")
    /\ Generic(Input)
    /\ {"length", "min_order"} \subseteq DOMAIN Input.constraints
    /\ Input.constraints["length"] > 0
    /\ \E co \in DOMAIN Yielded : size(co) = MaxStage
    /\ Awaited(Input) \subseteq DOMAIN Yielded
    /\ \E co \in AllOfSize(MaxStage) : co \notin DOMAIN Yielded

====
